---------------------------- MODULE Spec2Model ----------------------------
(***************************************************************************)
(* A model of the FAN test-pattern generator of fyerfyer/FAN-algorithm.    *)
(* The state is the circuit's per-signal cells, the decision stack and the *)
(* result record of one FAN invocation; the actions are the steps of the   *)
(* main loop of algorithm.FAN.                                             *)
(***************************************************************************)
EXTENDS Integers, Sequences, FiniteSets, TLC

(***************************************************************************)
(* Bounds of the exploration.                                              *)
(***************************************************************************)
\* deepest decision stack the search is followed to
MaxStack == 5
\* the configured decision budget, scaled down from the default of 1000
\* (pkg/types/types.go:215); FAN never reads it, so its value does not
\* influence any step of the search
MaxDecisions == 2
\* longest decision stack handed to a stand-alone backtrack step
MaxBtStack == 2

(***************************************************************************)
(* circuit.SignalValue and circuit.GateType (iota constants).              *)
(***************************************************************************)
ZERO == 0
ONE == 1
D == 2
D_BAR == 3
X == 4
SignalValue == {ZERO, ONE, D, D_BAR, X}

AND == 0
OR == 1
NOT == 2

\* a nil *Gate in Signal.FanIn
NilGate == 0

(***************************************************************************)
(* Generic helpers on sequences.                                           *)
(***************************************************************************)
Range(s) == {s[i] : i \in 1..Len(s)}

Contains(s, e) == \E i \in 1..Len(s) : s[i] = e

RECURSIVE Concat(_)
Concat(ss) == IF Len(ss) = 0 THEN <<>> ELSE Head(ss) \o Concat(Tail(ss))

\* all orderings of a finite set, as sequences without repetition
Orderings(S) ==
    {p \in [1..Cardinality(S) -> S] : \A i, j \in 1..Cardinality(S) : i # j => p[i] # p[j]}

(***************************************************************************)
(* Circuits.  A circuit is the record the builders leave behind: the gate  *)
(* list, the signal list, the primary inputs and outputs, and per signal   *)
(* its fanout list and its driving gate (an index into Gates, or NilGate   *)
(* when SetFanIn was never called for it).                                 *)
(***************************************************************************)
(***************************************************************************)
(* Circuit.IdentifyBoundAndHeadLines: the lines marked as head lines, in   *)
(* signal-list order, computed from the fanout links of a circuit.         *)
(***************************************************************************)
BoundLines(c) ==
    {t \in Range(c.Signals) :
        \E s \in Range(c.Signals) : Len(c.Fanouts[s]) > 1 /\ t \in Range(c.Fanouts[s])}

IdentifyBoundAndHeadLines(c) ==
    LET bound == BoundLines(c)
    IN SelectSeq(c.Signals,
                 LAMBDA s : s \notin bound /\ \E t \in Range(c.Fanouts[s]) : t \in bound)

\* the circuit record with its head-line list filled in
WithHeadLines(c) ==
    [Gates |-> c.Gates, Signals |-> c.Signals,
     PrimaryInputs |-> c.PrimaryInputs, PrimaryOutputs |-> c.PrimaryOutputs,
     IsPrimary |-> c.IsPrimary, Fanouts |-> c.Fanouts, FanIn |-> c.FanIn,
     HeadLines |-> IdentifyBoundAndHeadLines(c)]

IsHead(c, s) == s \in Range(c.HeadLines)

NewGate(id, gateType, inputs, output) ==
    [ID |-> id, Type |-> gateType, Inputs |-> inputs, Output |-> output]

\* examples.CreateSimpleCircuit: out = NOT(in3 OR (in1 AND in2)); the
\* builder links fanouts but never sets a driving gate
CreateSimpleCircuit ==
  WithHeadLines(
    [Gates |-> << NewGate("g1", AND, <<"in1", "in2">>, "mid1"),
                  NewGate("g2", OR, <<"in3", "mid1">>, "mid2"),
                  NewGate("g3", NOT, <<"mid2">>, "out") >>,
     Signals |-> <<"in1", "in2", "in3", "out", "mid1", "mid2">>,
     PrimaryInputs |-> <<"in1", "in2", "in3">>,
     PrimaryOutputs |-> <<"out">>,
     IsPrimary |-> {"in1", "in2", "in3", "out"},
     Fanouts |-> [s \in {"in1", "in2", "in3", "out", "mid1", "mid2"} |->
                    CASE s = "in1" -> <<"mid1">>
                      [] s = "in2" -> <<"mid1">>
                      [] s = "in3" -> <<"mid2">>
                      [] s = "mid1" -> <<"mid2">>
                      [] s = "mid2" -> <<"out">>
                      [] OTHER -> <<>>],
     FanIn |-> [s \in {"in1", "in2", "in3", "out", "mid1", "mid2"} |-> NilGate]])

\* examples.CreateFanTestCircuit: two fanout stems n1 and n3; only the
\* fanouts of n1 and n3 are linked, no driving gate is set
CreateFanTestCircuit ==
  WithHeadLines(
    [Gates |-> << NewGate("g1", AND, <<"in1", "in2">>, "n1"),
                  NewGate("g2", OR, <<"n1", "in3">>, "n2"),
                  NewGate("g3", AND, <<"n2", "in4">>, "n3"),
                  NewGate("g4", OR, <<"n3", "n1">>, "n4"),
                  NewGate("g5", AND, <<"n3", "n4">>, "n5"),
                  NewGate("g6", NOT, <<"n5">>, "out1"),
                  NewGate("g7", OR, <<"n1", "n3">>, "out2") >>,
     Signals |-> <<"in1", "in2", "in3", "in4", "out1", "out2",
                   "n1", "n2", "n3", "n4", "n5">>,
     PrimaryInputs |-> <<"in1", "in2", "in3", "in4">>,
     PrimaryOutputs |-> <<"out1", "out2">>,
     IsPrimary |-> {"in1", "in2", "in3", "in4", "out1", "out2"},
     Fanouts |-> [s \in {"in1", "in2", "in3", "in4", "out1", "out2",
                         "n1", "n2", "n3", "n4", "n5"} |->
                    CASE s = "n1" -> <<"n2", "n4", "out2">>
                      [] s = "n3" -> <<"n4", "n5", "out2">>
                      [] OTHER -> <<>>],
     FanIn |-> [s \in {"in1", "in2", "in3", "in4", "out1", "out2",
                       "n1", "n2", "n3", "n4", "n5"} |-> NilGate]])

\* the two-gate CreateSimpleCircuit of the other example file:
\* out1 = NOT(in1 AND in2), with n1.FanIn = g1 and out1.FanIn = g2 set;
\* this builder does not identify head lines
CreateSimpleCircuitAndNot ==
    [Gates |-> << NewGate("g1", AND, <<"in1", "in2">>, "n1"),
                  NewGate("g2", NOT, <<"n1">>, "out1") >>,
     Signals |-> <<"in1", "in2", "n1", "out1">>,
     PrimaryInputs |-> <<"in1", "in2">>,
     PrimaryOutputs |-> <<"out1">>,
     IsPrimary |-> {"in1", "in2", "out1"},
     HeadLines |-> <<>>,
     Fanouts |-> [s \in {"in1", "in2", "n1", "out1"} |->
                    IF s = "n1" THEN <<"out1">> ELSE <<>>],
     FanIn |-> [s \in {"in1", "in2", "n1", "out1"} |->
                    CASE s = "n1" -> 1 [] s = "out1" -> 2 [] OTHER -> NilGate]]

(***************************************************************************)
(* The construction API, as operators on the circuit record.               *)
(***************************************************************************)
\* circuit.NewCircuit together with circuit.NewSignal for every identifier
\* of ids: empty lists, and per signal no fanout and no driving gate
NewCircuit(ids) ==
    [Gates |-> <<>>, Signals |-> <<>>, PrimaryInputs |-> <<>>, PrimaryOutputs |-> <<>>,
     HeadLines |-> <<>>, IsPrimary |-> {},
     Fanouts |-> [s \in ids |-> <<>>], FanIn |-> [s \in ids |-> NilGate]]

\* A signal is named by its identifier.  A second Signal object created
\* with the identifier of another one is named by that identifier with the
\* suffix "#2"; SignalID is the ID field of the object.
SecondObjects == [s \in {"a#2"} |-> "a"]

SignalID(s) == IF s \in DOMAIN SecondObjects THEN SecondObjects[s] ELSE s

\* Circuit.containsSignal: a comparison of identifiers
containsSignal(signals, s) ==
    \E k \in 1..Len(signals) : SignalID(signals[k]) = SignalID(s)

\* a variant of WithSignal without the containsSignal test
WithSignalAlways(signals, s) == Append(signals, s)

\* the signal list with s appended unless containsSignal finds it
WithSignal(signals, s) ==
    IF containsSignal(signals, s) THEN signals ELSE Append(signals, s)

RECURSIVE WithSignals(_, _)
WithSignals(signals, ss) ==
    IF Len(ss) = 0 THEN signals ELSE WithSignals(WithSignal(signals, Head(ss)), Tail(ss))

\* Circuit.AddGate: appends the gate and lists its output and its inputs;
\* it touches no field of a signal
AddGate(c, gate) ==
    [c EXCEPT !.Gates = Append(@, gate),
              !.Signals = WithSignals(WithSignal(@, gate.Output), gate.Inputs)]

AddPrimaryInput(c, s) ==
    [c EXCEPT !.IsPrimary = @ \cup {s},
              !.PrimaryInputs = Append(@, s),
              !.Signals = WithSignal(@, s)]

AddPrimaryOutput(c, s) ==
    [c EXCEPT !.IsPrimary = @ \cup {s},
              !.PrimaryOutputs = Append(@, s),
              !.Signals = WithSignal(@, s)]

\* Signal.AddFanout
AddFanout(c, s, t) == [c EXCEPT !.Fanouts[s] = Append(@, t)]

\* a single three-input AND gate, put together the way the example
\* builders do it: primary inputs and output, NewGate, AddGate, one
\* AddFanout per gate input, IdentifyBoundAndHeadLines
CreateThreeInputAnd ==
    LET c0 == NewCircuit({"a", "b", "c", "out"})
        c1 == AddPrimaryOutput(
                AddPrimaryInput(AddPrimaryInput(AddPrimaryInput(c0, "a"), "b"), "c"), "out")
        c2 == AddGate(c1, NewGate("g1", AND, <<"a", "b", "c">>, "out"))
        c3 == AddFanout(AddFanout(AddFanout(c2, "a", "out"), "b", "out"), "c", "out")
    IN WithHeadLines(c3)

SignalSet(c) == Range(c.Signals)

GateIdx(c) == 1..Len(c.Gates)

\* the gates that list s among their inputs, in gate order, as output signals
Readers(c, s) ==
    LET F[i \in 0..Len(c.Gates)] ==
          IF i = 0 THEN <<>>
          ELSE IF s \in Range(c.Gates[i].Inputs)
               THEN Append(F[i - 1], c.Gates[i].Output)
               ELSE F[i - 1]
    IN F[Len(c.Gates)]

\* the same netlist with every connection made through the construction
\* API: SetFanIn(gate) on every gate output and AddFanout(s, t) for every
\* gate input s of the gate driving t, before the head lines are identified
Connected(c) ==
  WithHeadLines(
    [c EXCEPT
       !.Fanouts = [s \in SignalSet(c) |-> Readers(c, s)],
       !.FanIn = [s \in SignalSet(c) |->
                    IF \E i \in GateIdx(c) : c.Gates[i].Output = s
                    THEN CHOOSE i \in GateIdx(c) : c.Gates[i].Output = s
                    ELSE NilGate]])

\* the example netlists with every connection made
SimpleConnected == Connected(CreateSimpleCircuit)

FanTestConnected == Connected(CreateFanTestCircuit)

CircuitIds ==
    {"simple", "fantest", "andnot", "simple_connected", "fantest_connected", "and3"}

Circuit(id) ==
    CASE id = "simple" -> CreateSimpleCircuit
      [] id = "fantest" -> CreateFanTestCircuit
      [] id = "andnot" -> CreateSimpleCircuitAndNot
      [] id = "simple_connected" -> SimpleConnected
      [] id = "fantest_connected" -> FanTestConnected
      [] id = "and3" -> CreateThreeInputAnd
      [] id = "empty" -> NewCircuit({})

(***************************************************************************)
(* Signal cells.  A cell is the mutable part of circuit.Signal.            *)
(***************************************************************************)
\* circuit.NewSignal: State.Value is X, the Value field is left at its
\* zero value, which is ZERO
NewSignal == [Value |-> ZERO, State |-> X, IsFault |-> FALSE, FaultType |-> ZERO]

GetValue(s) ==
    IF s.IsFault
    THEN (IF s.FaultType = ZERO THEN D ELSE D_BAR)
    ELSE s.Value

SetValue(s, v) ==
    IF s.IsFault THEN s ELSE [s EXCEPT !.Value = v]

IsUnknown(s) == s.State = X

IsFaulty(s) == GetValue(s) \in {D, D_BAR}

IsCompatible(s, newValue) ==
    IF s.State = X THEN TRUE
    ELSE IF newValue = X THEN TRUE
    ELSE CASE s.State = ZERO -> newValue \in {ZERO, D_BAR}
           [] s.State = ONE -> newValue \in {ONE, D}
           [] s.State = D -> newValue \in {ONE, D}
           [] s.State = D_BAR -> newValue \in {ZERO, D_BAR}
           [] OTHER -> FALSE

(***************************************************************************)
(* Gate evaluation.  The search driver (fan.go) reads the Value field of   *)
(* the inputs; Gate.Evaluate (gate.go) reads them through GetValue.        *)
(***************************************************************************)
\* the Value fields of a gate's inputs, in input order
InputValues(g, sig) == [i \in 1..Len(g.Inputs) |-> sig[g.Inputs[i]].Value]

\* the GetValue readings of a gate's inputs, in input order
GetInputValues(g, sig) == [i \in 1..Len(g.Inputs) |-> GetValue(sig[g.Inputs[i]])]

evaluateANDGate(g, sig) ==
    LET in == Range(InputValues(g, sig))
    IN IF ZERO \in in THEN ZERO
       ELSE IF X \in in THEN X
       ELSE IF D \in in /\ D_BAR \in in THEN ZERO
       ELSE IF D \in in THEN D
       ELSE IF D_BAR \in in THEN D_BAR
       ELSE ONE

evaluateORGate(g, sig) ==
    LET in == Range(InputValues(g, sig))
    IN IF ONE \in in THEN ONE
       ELSE IF X \in in THEN X
       ELSE IF D \in in /\ D_BAR \in in THEN ONE
       ELSE IF D \in in THEN D
       ELSE IF D_BAR \in in THEN D_BAR
       ELSE ZERO

evaluateNOTGate(g, sig) ==
    LET v == sig[g.Inputs[1]].Value
    IN CASE v = X -> X
         [] v = ZERO -> ONE
         [] v = ONE -> ZERO
         [] v = D -> D_BAR
         [] v = D_BAR -> D
         [] OTHER -> X

evaluateGate(g, sig) ==
    CASE g.Type = AND -> evaluateANDGate(g, sig)
      [] g.Type = OR -> evaluateORGate(g, sig)
      [] g.Type = NOT -> evaluateNOTGate(g, sig)
      [] OTHER -> X

\* gate.go: the loop returns ZERO at the first ZERO or D_BAR input
evaluateAND(in) ==
    IF \E i \in 1..Len(in) : in[i] = ZERO \/ in[i] = D_BAR THEN ZERO
    ELSE IF X \in Range(in) THEN X
    ELSE IF D \in Range(in) THEN D
    ELSE ONE

\* gate.go: the loop returns ONE at the first ONE or D input
evaluateOR(in) ==
    IF \E i \in 1..Len(in) : in[i] = ONE \/ in[i] = D THEN ONE
    ELSE IF X \in Range(in) THEN X
    ELSE IF D_BAR \in Range(in) THEN D_BAR
    ELSE ZERO

evaluateNOT(v) ==
    CASE v = ZERO -> ONE
      [] v = ONE -> ZERO
      [] v = D -> D_BAR
      [] v = D_BAR -> D
      [] OTHER -> X

evaluate(g, sig) ==
    CASE g.Type = AND -> evaluateAND(GetInputValues(g, sig))
      [] g.Type = OR -> evaluateOR(GetInputValues(g, sig))
      [] g.Type = NOT -> evaluateNOT(GetValue(sig[g.Inputs[1]]))
      [] OTHER -> X

\* Gate.Evaluate: writes the output through SetValue and reports whether
\* the reading of the output changed
Evaluate(g, sig) ==
    LET after == [sig EXCEPT ![g.Output] = SetValue(sig[g.Output], evaluate(g, sig))]
    IN [changed |-> GetValue(sig[g.Output]) # GetValue(after[g.Output]),
        sig |-> after]

(***************************************************************************)
(* performImplication: sweeps over the gates in list order, writing each   *)
(* output that differs from the evaluation of its inputs, until a sweep    *)
(* changes nothing; stops with failure at an incompatible value.           *)
(***************************************************************************)
RECURSIVE ImplicationSweep(_, _, _, _)
ImplicationSweep(c, sig, i, changed) ==
    IF i > Len(c.Gates) THEN [ok |-> TRUE, sig |-> sig, changed |-> changed]
    ELSE LET gate == c.Gates[i]
             oldValue == sig[gate.Output].Value
             newValue == evaluateGate(gate, sig)
         IN IF oldValue # newValue
            THEN IF ~IsCompatible(sig[gate.Output], newValue)
                 THEN [ok |-> FALSE, sig |-> sig, changed |-> changed]
                 ELSE ImplicationSweep(c,
                        [sig EXCEPT ![gate.Output].Value = newValue], i + 1, TRUE)
            ELSE ImplicationSweep(c, sig, i + 1, changed)

RECURSIVE performImplication(_, _)
performImplication(c, sig) ==
    LET r == ImplicationSweep(c, sig, 1, FALSE)
    IN IF ~r.ok THEN [ok |-> FALSE, sig |-> r.sig]
       ELSE IF r.changed THEN performImplication(c, r.sig)
       ELSE [ok |-> TRUE, sig |-> r.sig]

(***************************************************************************)
(* D-frontier, completion test, objectives.                                *)
(***************************************************************************)
isDFrontierGate(g, sig) ==
    /\ \E i \in 1..Len(g.Inputs) : sig[g.Inputs[i]].Value \in {D, D_BAR}
    /\ \E i \in 1..Len(g.Inputs) : sig[g.Inputs[i]].Value = X
    /\ ~IsFaulty(sig[g.Output])

\* the D-frontier as a sequence of gate indices, in gate order
findDFrontier(c, sig) ==
    SelectSeq([i \in 1..Len(c.Gates) |-> i],
              LAMBDA i : isDFrontierGate(c.Gates[i], sig))

allNecessaryAssignmentsMade(c, sig) ==
    \A s \in SignalSet(c) : ~(sig[s].Value = X /\ s \notin c.IsPrimary)

isTestComplete(c, sig, dFrontier) ==
    \/ \E i \in 1..Len(c.PrimaryOutputs) :
          sig[c.PrimaryOutputs[i]].Value \in {D, D_BAR}
    \/ Len(dFrontier) = 0 /\ allNecessaryAssignmentsMade(c, sig)

\* types.BacktraceObjective; Cost is never set and stays at zero
createObjectives(c, dFrontier) ==
    [k \in 1..Len(dFrontier) |->
        [Signal |-> c.Gates[dFrontier[k]].Output, Value |-> ONE,
         Priority |-> 10, ZeroCount |-> 0, OneCount |-> 1, Cost |-> 0]]

saveTestPattern(c, sig) ==
    [s \in Range(c.PrimaryInputs) |-> GetValue(sig[s])]

resetCircuit(c, sig) ==
    [s \in DOMAIN sig |->
        IF s \notin c.IsPrimary THEN [sig[s] EXCEPT !.Value = X] ELSE sig[s]]

\* a variant of getOppositeValue that hands the value back unchanged
getOppositeValueUnchanged(value) == value

getOppositeValue(value) ==
    CASE value = ZERO -> ONE
      [] value = ONE -> ZERO
      [] value = D -> D_BAR
      [] value = D_BAR -> D
      [] OTHER -> X

(***************************************************************************)
(* Unique sensitization: PathFinder.FindUniqueSensitizationPaths and the   *)
(* mandatory signals MultipleBacktrace derives from it.                    *)
(***************************************************************************)
\* the depth-first search of FindUniqueSensitizationPaths from one gate:
\* the gate paths that end at a gate whose output is primary
RECURSIVE PathsFromGate(_, _, _)
PathsFromGate(c, gi, currentPath) ==
    LET newPath == Append(currentPath, gi)
        out == c.Gates[gi].Output
        fo == c.Fanouts[out]
    IN IF out \in c.IsPrimary THEN << newPath >>
       ELSE Concat([k \in 1..Len(fo) |->
                      IF c.FanIn[fo[k]] # NilGate
                      THEN PathsFromGate(c, c.FanIn[fo[k]], newPath)
                      ELSE <<>>])

FindUniqueSensitizationPaths(c, dFrontier) ==
    IF Len(dFrontier) # 1 THEN <<>> ELSE PathsFromGate(c, dFrontier[1], <<>>)

\* the gate paths of the signal's driving gate, as paths of output signals
findAllPaths(c, signal) ==
    LET paths == FindUniqueSensitizationPaths(c, << c.FanIn[signal] >>)
    IN [p \in 1..Len(paths) |->
          [k \in 1..Len(paths[p]) |-> c.Gates[paths[p][k]].Output]]

\* the signals found on every path; Go returns them in map iteration order
findCommonSignals(paths) ==
    IF Len(paths) = 0 THEN {}
    ELSE {s \in UNION {Range(paths[p]) : p \in 1..Len(paths)} :
            \A p \in 1..Len(paths) : s \in Range(paths[p])}

findMandatoryPaths(c, signal) ==
    IF c.FanIn[signal] = NilGate THEN {}
    ELSE findCommonSignals(findAllPaths(c, signal))

(***************************************************************************)
(* Multiple backtrace.                                                     *)
(***************************************************************************)
RECURSIVE ReachClosure(_, _)
ReachClosure(c, S) ==
    LET T == S \cup UNION {Range(c.Fanouts[s]) : s \in S}
    IN IF T = S THEN S ELSE ReachClosure(c, T)

\* Signal.GetReachableFanouts: the signals reachable through fanout links
\* (the signal itself included) that have at least one fanout
GetReachableFanouts(c, s) ==
    {t \in ReachClosure(c, {s}) : Len(c.Fanouts[t]) > 0}

\* Gate.GetEasiestControllingInput: the first input with the fewest
\* reachable fanouts
GetEasiestControllingInput(c, g) ==
    LET control(i) == Cardinality(GetReachableFanouts(c, g.Inputs[i]))
        best == CHOOSE i \in 1..Len(g.Inputs) :
                   /\ \A j \in 1..Len(g.Inputs) : control(i) <= control(j)
                   /\ \A j \in 1..(i - 1) : control(j) > control(i)
    IN g.Inputs[best]

\* utils.GetAlternativeValue
GetAlternativeValue(value) ==
    CASE value = ZERO -> ONE
      [] value = ONE -> ZERO
      [] value = D -> D_BAR
      [] value = D_BAR -> D
      [] OTHER -> X

NewObjective(signal, value, zeroCount, oneCount, priority) ==
    [Signal |-> signal, Value |-> value, Priority |-> priority,
     ZeroCount |-> zeroCount, OneCount |-> oneCount, Cost |-> 0]

backtraceGateWithCost(c, g, obj) ==
    CASE g.Type = AND ->
           IF obj.Value = ONE
           THEN [i \in 1..Len(g.Inputs) |->
                   NewObjective(g.Inputs[i], ONE, 0, obj.OneCount, obj.Priority - 1)]
           ELSE << NewObjective(GetEasiestControllingInput(c, g), ZERO,
                                obj.ZeroCount, 0, obj.Priority - 1) >>
      [] g.Type = OR ->
           IF obj.Value = ZERO
           THEN [i \in 1..Len(g.Inputs) |->
                   NewObjective(g.Inputs[i], ZERO, obj.ZeroCount, 0, obj.Priority - 1)]
           ELSE << NewObjective(GetEasiestControllingInput(c, g), ONE,
                                0, obj.OneCount, obj.Priority - 1) >>
      [] g.Type = NOT ->
           << NewObjective(g.Inputs[1], GetAlternativeValue(obj.Value),
                           obj.OneCount, obj.ZeroCount, obj.Priority) >>
      [] OTHER -> <<>>

\* the comparison of sortObjectivesByPriorityAndCost
ObjectiveLess(a, b) ==
    IF a.Priority # b.Priority THEN a.Priority > b.Priority ELSE a.Cost < b.Cost

\* one insertion of Go's insertion sort: the new element moves left while
\* it is less than its left neighbour
RECURSIVE InsertObjective(_, _)
InsertObjective(sorted, x) ==
    IF Len(sorted) = 0 THEN << x >>
    ELSE IF ObjectiveLess(x, sorted[Len(sorted)])
         THEN Append(InsertObjective(SubSeq(sorted, 1, Len(sorted) - 1), x),
                     sorted[Len(sorted)])
         ELSE Append(sorted, x)

\* a variant of sortObjectivesByPriorityAndCost that is not stable: it
\* hands back equal elements in the opposite order
sortObjectivesReversed(objs) == [i \in 1..Len(objs) |-> objs[Len(objs) + 1 - i]]

\* sort.Slice on a slice of at most twelve elements is an insertion sort
RECURSIVE sortObjectivesByPriorityAndCost(_)
sortObjectivesByPriorityAndCost(objs) ==
    IF Len(objs) = 0 THEN <<>>
    ELSE InsertObjective(
           sortObjectivesByPriorityAndCost(SubSeq(objs, 1, Len(objs) - 1)),
           objs[Len(objs)])

\* the objectives of one level, one after the other: bt is the record of
\* the processed identifiers, the final objectives, the head lines and the
\* objectives of the next level
RECURSIVE BacktraceLevel(_, _, _, _)
BacktraceLevel(c, current, k, bt) ==
    IF k > Len(current) THEN bt
    ELSE LET obj == current[k]
         IN IF obj.Signal \in bt.processed
            THEN BacktraceLevel(c, current, k + 1, bt)
            ELSE LET newObjs == IF c.FanIn[obj.Signal] # NilGate
                                THEN backtraceGateWithCost(c, c.Gates[c.FanIn[obj.Signal]], obj)
                                ELSE <<>>
                     heads == SelectSeq(newObjs, LAMBDA o : IsHead(c, o.Signal))
                 IN BacktraceLevel(c, current, k + 1,
                      [processed |-> bt.processed \cup {obj.Signal},
                       final |-> bt.final \o heads,
                       heads |-> bt.heads \o [i \in 1..Len(heads) |-> heads[i].Signal],
                       next |-> bt.next \o newObjs])

RECURSIVE BacktraceLoop(_, _, _)
BacktraceLoop(c, current, bt) ==
    IF Len(current) = 0 THEN bt
    ELSE LET r == BacktraceLevel(c, current, 1, [bt EXCEPT !.next = <<>>])
         IN BacktraceLoop(c, r.next, r)

\* a variant of MultipleBacktrace that keeps as final objectives only the
\* objectives found on head lines during the descent: the initial
\* objectives and the mandatory signals are not put into the list and
\* nothing is counted
MultipleBacktraceDescentOnly(initialObjectives, c, mandatory) ==
    LET r == BacktraceLoop(c, initialObjectives,
               [processed |-> {}, final |-> <<>>, heads |-> <<>>, next |-> <<>>])
    IN [FinalObjectives |-> sortObjectivesByPriorityAndCost(r.final),
        HeadLines |-> r.heads,
        Stats |-> [Decisions |-> 0]]

\* MultipleBacktrace with the default configuration (unique sensitization
\* enabled); mandatory is the order in which the map of mandatory signals
\* is iterated
MultipleBacktrace(initialObjectives, c, mandatory) ==
    LET initHeads == SelectSeq(initialObjectives, LAMBDA o : IsHead(c, o.Signal))
        withMandatory ==
            initialObjectives \o
              [i \in 1..Len(mandatory) |-> NewObjective(mandatory[i], ONE, 0, 1, 10)]
        r == BacktraceLoop(c, initialObjectives,
               [processed |-> {},
                final |-> withMandatory,
                heads |-> [i \in 1..Len(initHeads) |-> initHeads[i].Signal],
                next |-> <<>>])
        final == IF Len(r.final) = 0 THEN initialObjectives ELSE r.final
    IN [FinalObjectives |-> sortObjectivesByPriorityAndCost(final),
        HeadLines |-> r.heads,
        Stats |-> [Decisions |-> IF Len(initialObjectives) > 0 THEN 1 ELSE 0]]

\* the iteration orders Go may choose for the mandatory signals
MandatoryOrders(c, initialObjectives) ==
    IF Len(initialObjectives) = 0 THEN { <<>> }
    ELSE Orderings(findMandatoryPaths(c, initialObjectives[1].Signal))

(***************************************************************************)
(* The worklist Implication run after a decision.                          *)
(***************************************************************************)
\* forwardImplicate: re-evaluates the driving gate of every fanout of the
\* signal; im is the record of the cells and the queue
RECURSIVE forwardImplicate(_, _, _, _)
forwardImplicate(c, signal, k, im) ==
    LET fo == c.Fanouts[signal]
    IN IF k > Len(fo) THEN [ok |-> TRUE, sig |-> im.sig, queue |-> im.queue]
       ELSE IF c.FanIn[fo[k]] = NilGate THEN forwardImplicate(c, signal, k + 1, im)
       ELSE LET gate == c.Gates[c.FanIn[fo[k]]]
                e == Evaluate(gate, im.sig)
                newValue == GetValue(e.sig[gate.Output])
            IN IF e.changed
               THEN IF ~IsCompatible(e.sig[signal], newValue)
                    THEN [ok |-> FALSE, sig |-> e.sig, queue |-> im.queue]
                    ELSE forwardImplicate(c, signal, k + 1,
                           [sig |-> e.sig, queue |-> Append(im.queue, gate.Output)])
               ELSE forwardImplicate(c, signal, k + 1, [im EXCEPT !.sig = e.sig])

\* the unknown inputs of a gate, in input order
UnknownInputs(g, sig) == SelectSeq(g.Inputs, LAMBDA s : IsUnknown(sig[s]))

backwardImplicateAND(g, signal, sig, queue) ==
    IF GetValue(sig[g.Output]) = ONE /\ Len(UnknownInputs(g, sig)) > 0
    THEN IF ~IsCompatible(sig[signal], ONE)
         THEN [ok |-> FALSE, queue |-> queue]
         ELSE [ok |-> TRUE, queue |-> queue \o UnknownInputs(g, sig)]
    ELSE [ok |-> TRUE, queue |-> queue]

backwardImplicateOR(g, signal, sig, queue) ==
    IF GetValue(sig[g.Output]) = ZERO /\ Len(UnknownInputs(g, sig)) > 0
    THEN IF ~IsCompatible(sig[signal], ZERO)
         THEN [ok |-> FALSE, queue |-> queue]
         ELSE [ok |-> TRUE, queue |-> queue \o UnknownInputs(g, sig)]
    ELSE [ok |-> TRUE, queue |-> queue]

backwardImplicateNOT(g, signal, sig, queue) ==
    IF IsUnknown(sig[g.Inputs[1]]) /\ GetValue(sig[g.Output]) \in {ZERO, ONE}
    THEN IF ~IsCompatible(sig[signal], evaluateNOT(GetValue(sig[g.Output])))
         THEN [ok |-> FALSE, queue |-> queue]
         ELSE [ok |-> TRUE, queue |-> Append(queue, g.Inputs[1])]
    ELSE [ok |-> TRUE, queue |-> queue]

\* backwardImplicate: queues inputs of the signal's driving gate; it writes
\* no signal value
backwardImplicate(c, signal, sig, queue) ==
    IF c.FanIn[signal] = NilGate THEN [ok |-> TRUE, queue |-> queue]
    ELSE LET gate == c.Gates[c.FanIn[signal]]
         IN CASE gate.Type = AND -> backwardImplicateAND(gate, signal, sig, queue)
              [] gate.Type = OR -> backwardImplicateOR(gate, signal, sig, queue)
              [] gate.Type = NOT -> backwardImplicateNOT(gate, signal, sig, queue)
              [] OTHER -> [ok |-> FALSE, queue |-> queue]

RECURSIVE ImplicationLoop(_, _, _, _)
ImplicationLoop(c, sig, queue, processed) ==
    IF Len(queue) = 0 THEN [Success |-> TRUE, sig |-> sig]
    ELSE LET current == Head(queue)
         IN IF current \in processed
            THEN ImplicationLoop(c, sig, Tail(queue), processed)
            ELSE LET f == forwardImplicate(c, current, 1,
                                           [sig |-> sig, queue |-> Tail(queue)])
                     b == backwardImplicate(c, current, f.sig, f.queue)
                 IN IF ~f.ok THEN [Success |-> FALSE, sig |-> f.sig]
                    ELSE IF ~b.ok THEN [Success |-> FALSE, sig |-> f.sig]
                    ELSE ImplicationLoop(c, f.sig, b.queue, processed \cup {current})

Implication(c, sig, signal) == ImplicationLoop(c, sig, << signal >>, {})

(***************************************************************************)
(* handleBacktraceResult: tries the final objectives in order and keeps    *)
(* the first whose Implication succeeds as a new decision.                 *)
(***************************************************************************)
NewDecision(signal, value, level) ==
    [Signal |-> signal, Value |-> value, Alternative |-> FALSE, Level |-> level]

RECURSIVE handleBacktraceResult(_, _, _, _, _)
handleBacktraceResult(c, sig, finalObjectives, k, level) ==
    IF k > Len(finalObjectives) THEN [ok |-> FALSE, sig |-> sig]
    ELSE LET obj == finalObjectives[k]
             applied == [sig EXCEPT ![obj.Signal] = SetValue(sig[obj.Signal], obj.Value)]
             impl == Implication(c, applied, obj.Signal)
         IN IF impl.Success
            THEN [ok |-> TRUE, sig |-> impl.sig,
                  decision |-> NewDecision(obj.Signal, obj.Value, level + 1)]
            ELSE handleBacktraceResult(c,
                   [impl.sig EXCEPT ![obj.Signal] = SetValue(impl.sig[obj.Signal], X)],
                   finalObjectives, k + 1, level)

(***************************************************************************)
(* Backtracking.                                                           *)
(***************************************************************************)
RECURSIVE ReplayDecisions(_, _, _, _)
ReplayDecisions(sig, decisions, i, upToIndex) ==
    IF i > upToIndex THEN sig
    ELSE ReplayDecisions(
           [sig EXCEPT ![decisions[i].Signal] =
                          SetValue(sig[decisions[i].Signal], decisions[i].Value)],
           decisions, i + 1, upToIndex)

\* a variant of resetCircuitState that resets the non-primary signals but
\* replays no decision
resetCircuitStateNoReplay(c, sig, decisions, upToIndex) ==
    [s \in DOMAIN sig |-> IF s \notin c.IsPrimary THEN SetValue(sig[s], X) ELSE sig[s]]

\* resetCircuitState: every non-primary signal to X, then the decisions
\* 1..upToIndex in order (upToIndex is the Go index plus one)
resetCircuitState(c, sig, decisions, upToIndex) ==
    ReplayDecisions(
      [s \in DOMAIN sig |-> IF s \notin c.IsPrimary THEN SetValue(sig[s], X) ELSE sig[s]],
      decisions, 1, upToIndex)

RECURSIVE backtrack(_, _, _)
backtrack(decisionTree, c, sig) ==
    IF Len(decisionTree) = 0
    THEN [ok |-> FALSE, decisionTree |-> decisionTree, sig |-> sig]
    ELSE LET lastIdx == Len(decisionTree)
             lastDecision == decisionTree[lastIdx]
         IN IF ~lastDecision.Alternative
            THEN LET flipped == [lastDecision EXCEPT
                                   !.Alternative = TRUE,
                                   !.Value = getOppositeValue(lastDecision.Value)]
                     tree == [decisionTree EXCEPT ![lastIdx] = flipped]
                     reset == resetCircuitState(c, sig, tree, lastIdx)
                 IN [ok |-> TRUE, decisionTree |-> tree,
                     sig |-> [reset EXCEPT ![flipped.Signal] =
                                SetValue(reset[flipped.Signal], flipped.Value)]]
            ELSE backtrack(SubSeq(decisionTree, 1, lastIdx - 1), c, sig)

(***************************************************************************)
(* The state of one FAN invocation.                                        *)
(***************************************************************************)
VARIABLES
    cid,           \* the circuit FAN is called on
    sig,           \* signal identifier -> signal cell
    faultSite,     \* the faultSite argument
    faultValue,    \* the faultValue argument: ZERO (stuck-at-0) or ONE
    decisionTree,  \* the decision stack, bottom first
    result,        \* the *types.TestResult under construction
    pc             \* the position of the invocation in FAN's main loop

vars == <<cid, sig, faultSite, faultValue, decisionTree, result, pc>>

\* types.NewTestResult; Error is the nil interface value until it is set
NewTestResult ==
    [Success |-> FALSE, TestPattern |-> <<>>, DFrontier |-> <<>>, Error |-> "nil",
     DecisionLevel |-> 0, Decisions |-> 0, Backtracks |-> 0]

\* types.NewTestGenerationConfig
NewTestGenerationConfig ==
    [MaxDecisions |-> MaxDecisions, UseUniqueSensitization |-> TRUE]

\* the values a caller may leave on a primary input before calling FAN
InputValueChoices == {ZERO, ONE, X}

\* a circuit as constructed, with the caller's values on the primary inputs
Init ==
    /\ cid \in CircuitIds
    /\ sig \in {[s \in SignalSet(Circuit(cid)) |->
                    IF s \in DOMAIN v THEN [NewSignal EXCEPT !.Value = v[s]] ELSE NewSignal] :
                 v \in [Range(Circuit(cid).PrimaryInputs) -> InputValueChoices]}
    /\ faultSite \in SignalSet(Circuit(cid))
    /\ faultValue \in {ZERO, ONE}
    /\ decisionTree = <<>>
    /\ result = NewTestResult
    /\ pc = "call"

\* FAN, lines 13-24: fresh result and stack, reset of the non-primary
\* signals, the fault value written into the Value field of the fault site
FAN_Init ==
    /\ pc = "call"
    /\ result' = NewTestResult
    /\ decisionTree' = <<>>
    /\ sig' = [resetCircuit(Circuit(cid), sig) EXCEPT
                 ![faultSite].Value = IF faultValue = ONE THEN D_BAR ELSE D]
    /\ pc' = "implication"
    /\ UNCHANGED <<cid, faultSite, faultValue>>

\* FAN, lines 28-34: the gate sweep at the top of the loop
FAN_Implication ==
    /\ pc = "implication"
    /\ LET r == performImplication(Circuit(cid), sig)
       IN /\ sig' = r.sig
          /\ pc' = IF r.ok THEN "frontier" ELSE "backtrack"
    /\ UNCHANGED <<cid, faultSite, faultValue, decisionTree, result>>

\* FAN, lines 37-54: D-frontier, completion check, creation of objectives
FAN_Completion ==
    /\ pc = "frontier"
    /\ LET c == Circuit(cid)
           dFrontier == findDFrontier(c, sig)
       IN IF isTestComplete(c, sig, dFrontier)
          THEN /\ result' = [result EXCEPT !.DFrontier = dFrontier,
                                           !.Success = TRUE,
                                           !.TestPattern = saveTestPattern(c, sig)]
               /\ pc' = "returned"
          ELSE /\ result' = [result EXCEPT !.DFrontier = dFrontier]
               /\ pc' = IF Len(createObjectives(c, dFrontier)) = 0
                        THEN "backtrack" ELSE "backtrace"
    /\ UNCHANGED <<cid, sig, faultSite, faultValue, decisionTree>>

\* FAN, lines 56-61: multiple backtrace and the decision it leads to
FAN_Backtrace ==
    /\ pc = "backtrace"
    /\ Len(decisionTree) < MaxStack
    /\ LET c == Circuit(cid)
           objectives == createObjectives(c, result.DFrontier)
       IN \E mandatory \in MandatoryOrders(c, objectives) :
            LET backtraceResult == MultipleBacktrace(objectives, c, mandatory)
                h == IF Len(backtraceResult.FinalObjectives) = 0
                     THEN [ok |-> FALSE, sig |-> sig]
                     ELSE handleBacktraceResult(c, sig, backtraceResult.FinalObjectives,
                                                1, result.DecisionLevel)
            IN /\ sig' = h.sig
               /\ IF h.ok
                  THEN /\ decisionTree' = Append(decisionTree, h.decision)
                       /\ result' = [result EXCEPT !.DecisionLevel = @ + 1,
                                                   !.Decisions = @ + 1]
                       /\ pc' = "implication"
                  ELSE /\ UNCHANGED <<decisionTree, result>>
                       /\ pc' = "backtrack"
    /\ UNCHANGED <<cid, faultSite, faultValue>>

\* FAN, lines 30-33, 50-53 and 58-60: backtrack, and the end of the loop
\* when it finds the stack empty
FAN_Backtrack ==
    /\ pc = "backtrack"
    /\ LET b == backtrack(decisionTree, Circuit(cid), sig)
       IN /\ decisionTree' = b.decisionTree
          /\ sig' = b.sig
          /\ pc' = IF b.ok THEN "implication" ELSE "returned"
    /\ UNCHANGED <<cid, faultSite, faultValue, result>>

Next ==
    \/ FAN_Init
    \/ FAN_Implication
    \/ FAN_Completion
    \/ FAN_Backtrace
    \/ FAN_Backtrack

Spec == Init /\ [][Next]_vars

(***************************************************************************)
(* A backtrack step on its own.  Inside a FAN run the step is only ever    *)
(* taken from the states the search reaches; the function itself accepts   *)
(* any decision stack and any signal values, so it is also explored from   *)
(* every stack of at most MaxBtStack decisions over the two-gate circuit.  *)
(***************************************************************************)
\* the decisions a stack may hold at position level
DecisionsAt(c, level) ==
    {[Signal |-> s, Value |-> v, Alternative |-> a, Level |-> level] :
        s \in SignalSet(c), v \in {ZERO, ONE}, a \in BOOLEAN}

\* the decision stacks of exactly n decisions
RECURSIVE StacksOfLen(_, _)
StacksOfLen(c, n) ==
    IF n = 0 THEN {<<>>}
    ELSE {Append(t, d) : t \in StacksOfLen(c, n - 1), d \in DecisionsAt(c, n)}

DecisionStacks(c) == UNION {StacksOfLen(c, n) : n \in 0..MaxBtStack}

InitBT ==
    /\ cid = "andnot"
    /\ sig \in [SignalSet(Circuit("andnot")) ->
                  {[NewSignal EXCEPT !.Value = v] : v \in {ZERO, ONE, X}}]
    /\ faultSite = "in1"
    /\ faultValue = ZERO
    /\ decisionTree \in DecisionStacks(Circuit("andnot"))
    /\ result = [NewTestResult EXCEPT !.DecisionLevel = Len(decisionTree),
                                      !.Decisions = Len(decisionTree)]
    /\ pc = "backtrack"

NextBT == FAN_Backtrack

SpecBT == InitBT /\ [][NextBT]_vars

(***************************************************************************)
(* Two-valued reference simulation, used to state what a test pattern is.  *)
(* It follows the netlist (each gate drives its output) and is independent *)
(* of the five-valued evaluation the search performs.                      *)
(***************************************************************************)
\* the value of signal s under the total input pattern pat; in the faulty
\* circuit the fault site is held at the stuck value
RECURSIVE BoolValue(_, _, _, _, _, _)
BoolValue(c, pat, site, stuck, faulty, s) ==
    IF faulty /\ s = site THEN stuck
    ELSE IF s \in DOMAIN pat THEN pat[s]
    ELSE LET g == c.Gates[CHOOSE i \in GateIdx(c) : c.Gates[i].Output = s]
             in == [k \in 1..Len(g.Inputs) |->
                      BoolValue(c, pat, site, stuck, faulty, g.Inputs[k])]
         IN CASE g.Type = AND -> IF \A k \in DOMAIN in : in[k] = 1 THEN 1 ELSE 0
              [] g.Type = OR -> IF \E k \in DOMAIN in : in[k] = 1 THEN 1 ELSE 0
              [] g.Type = NOT -> 1 - in[1]

\* the total pattern pat makes the good and the faulty circuit differ at
\* some primary output
Differs(c, pat, site, stuck) ==
    \E o \in Range(c.PrimaryOutputs) :
        BoolValue(c, pat, site, stuck, FALSE, o) # BoolValue(c, pat, site, stuck, TRUE, o)

TotalPatterns(c) == [Range(c.PrimaryInputs) -> {0, 1}]

\* the total patterns a returned pattern stands for: 0 and 1 as they are,
\* D as its good value 1, D_BAR as its good value 0, X as either value
Completions(c, pattern) ==
    {pat \in TotalPatterns(c) :
        \A s \in DOMAIN pattern :
            CASE pattern[s] \in {ZERO, D_BAR} -> pat[s] = 0
              [] pattern[s] \in {ONE, D} -> pat[s] = 1
              [] OTHER -> TRUE}

\* some primary-input assignment detects the fault
Detectable(c, site, stuck) ==
    \E pat \in TotalPatterns(c) : Differs(c, pat, site, stuck)

FaultSymbol == IF faultValue = ZERO THEN D ELSE D_BAR

Returned == pc = "returned"

(***************************************************************************)
(* Properties of a FAN run (specification Spec).                           *)
(***************************************************************************)
\* C1: whenever FAN returns Success=true, the returned pattern (under some
\* reading of its unassigned entries) makes the good and the faulty
\* simulation differ at a primary output; in particular there is no
\* success for a fault that no pattern detects.
SuccessPatternDetectsFault ==
    (Returned /\ result.Success) =>
        \E pat \in Completions(Circuit(cid), result.TestPattern) :
            Differs(Circuit(cid), pat, faultSite, faultValue)

\* C2: Success=true is set only in a state where some primary output
\* holds D or D_BAR.
SuccessOnlyWithFaultyOutput ==
    (Returned /\ result.Success) =>
        \E o \in Range(Circuit(cid).PrimaryOutputs) : GetValue(sig[o]) \in {D, D_BAR}

\* C3: the decision stack does not grow without bound: each stacked
\* decision assigns one signal of a finite binary search, so the stack is
\* never deeper than the number of signals of the circuit.
DecisionStackBounded ==
    Len(decisionTree) <= Cardinality(SignalSet(Circuit(cid)))

\* C4: from fault injection until FAN returns, the fault site holds D for
\* a stuck-at-0 fault and D_BAR for a stuck-at-1 fault.
FaultSiteKeepsFaultValue ==
    pc # "call" => GetValue(sig[faultSite]) = FaultSymbol

\* C5: for every fault that some primary-input assignment detects, a
\* FAN invocation that returns reports Success=true.
DetectableFaultSucceeds ==
    (Returned /\ Detectable(Circuit(cid), faultSite, faultValue)) => result.Success

\* C6: a success result's test pattern has exactly one entry per primary
\* input, no other entry, and every entry is 0 or 1.
SuccessPatternIsBinary ==
    (Returned /\ result.Success) =>
        /\ DOMAIN result.TestPattern = Range(Circuit(cid).PrimaryInputs)
        /\ \A s \in DOMAIN result.TestPattern : result.TestPattern[s] \in {ZERO, ONE}

\* C7: when FAN ends because backtracking found the decision stack
\* empty, the result has Success=false, error kind NoSolution and an
\* empty test pattern.
EmptyStackEndsWithNoSolution ==
    (Returned /\ ~result.Success) =>
        /\ result.Error = "NoSolution"
        /\ result.TestPattern = <<>>

\* C8: the number of decisions created during one run never exceeds the
\* configured max_decisions.
DecisionsWithinBudget ==
    result.Decisions <= NewTestGenerationConfig.MaxDecisions

(***************************************************************************)
(* Properties of a backtrack step (specification SpecBT).                  *)
(***************************************************************************)
\* the position of the topmost decision whose alternative is untried, 0
\* when there is none
LastUntried(tree) ==
    IF \E i \in 1..Len(tree) : ~tree[i].Alternative
    THEN CHOOSE i \in 1..Len(tree) :
            /\ ~tree[i].Alternative
            /\ \A j \in (i + 1)..Len(tree) : tree[j].Alternative
    ELSE 0

\* C9: a backtrack step fails on an empty stack; it pops every top
\* decision whose alternative was tried; the first decision it meets with
\* alternative=false gets the complementary value (0 <-> 1) and
\* alternative=true and stays on the stack, with everything below it
\* untouched; a stack without such a decision ends empty with failure.
\* The stack never grows.
BacktrackStepPolicy ==
    [][pc = "backtrack" =>
        LET k == LastUntried(decisionTree)
        IN /\ Len(decisionTree') <= Len(decisionTree)
           /\ IF k = 0
              THEN pc' = "returned" /\ decisionTree' = <<>>
              ELSE /\ pc' = "implication"
                   /\ Len(decisionTree') = k
                   /\ \A i \in 1..(k - 1) : decisionTree'[i] = decisionTree[i]
                   /\ decisionTree'[k].Signal = decisionTree[k].Signal
                   /\ decisionTree'[k].Alternative
                   /\ decisionTree'[k].Value = 1 - decisionTree[k].Value
                   /\ decisionTree'[k].Value \in {ZERO, ONE}]_vars

\* a step that popped a tried decision and flipped the one below it
BacktrackPoppedAndFlipped ==
    /\ pc = "implication"
    /\ Len(decisionTree) >= 1
    /\ Len(decisionTree) < result.DecisionLevel
    /\ decisionTree[Len(decisionTree)].Alternative

\* the positions of the decisions of tree that target signal s
TargetsOf(tree, s) == {i \in 1..Len(tree) : tree[i].Signal = s}

Latest(S) == CHOOSE i \in S : \A j \in S : j <= i

\* C10: right after a backtrack step that returns true, a signal that a
\* remaining decision targets holds the value of the latest such
\* decision, every other non-primary signal holds X, and every other
\* primary signal is unchanged.
BacktrackRebuildsState ==
    [][(pc = "backtrack" /\ pc' = "implication") =>
        \A s \in SignalSet(Circuit(cid)) :
            IF TargetsOf(decisionTree', s) # {}
            THEN GetValue(sig'[s]) = decisionTree'[Latest(TargetsOf(decisionTree', s))].Value
            ELSE IF s \notin Circuit(cid).IsPrimary
                 THEN GetValue(sig'[s]) = X
                 ELSE sig'[s] = sig[s]]_vars

\* a rebuilt state with two decisions on different primary signals, the
\* internal signal n1 untargeted and reset, and out1 left at a value
BacktrackRebuiltWithTwoDecisions ==
    /\ pc = "implication"
    /\ Len(decisionTree) = 2
    /\ decisionTree[1].Signal # decisionTree[2].Signal
    /\ TargetsOf(decisionTree, "n1") = {}
    /\ TargetsOf(decisionTree, "out1") = {}
    /\ GetValue(sig["n1"]) = X
    /\ GetValue(sig["out1"]) = ONE

(***************************************************************************)
(* The five-valued gate tables, used to state what an evaluation has to    *)
(* return.  S is the set of values found on the inputs of the gate.        *)
(***************************************************************************)
AndTable(S) ==
    IF ZERO \in S THEN ZERO
    ELSE IF X \in S THEN X
    ELSE IF D \in S /\ D_BAR \in S THEN ZERO
    ELSE IF D \in S THEN D
    ELSE IF D_BAR \in S THEN D_BAR
    ELSE ONE

OrTable(S) ==
    IF ONE \in S THEN ONE
    ELSE IF X \in S THEN X
    ELSE IF D \in S /\ D_BAR \in S THEN ONE
    ELSE IF D \in S THEN D
    ELSE IF D_BAR \in S THEN D_BAR
    ELSE ZERO

NotTable(v) ==
    CASE v = ZERO -> ONE
      [] v = ONE -> ZERO
      [] v = D -> D_BAR
      [] v = D_BAR -> D
      [] OTHER -> X

\* the table value of gate g for the values its inputs hold in s
GateTable(g, s) ==
    CASE g.Type = AND -> AndTable(Range(GetInputValues(g, s)))
      [] g.Type = OR -> OrTable(Range(GetInputValues(g, s)))
      [] g.Type = NOT -> NotTable(GetValue(s[g.Inputs[1]]))

\* every gate output of c holds the table value of its inputs
GatesEvaluated(c, s) ==
    \A i \in GateIdx(c) : GetValue(s[c.Gates[i].Output]) = GateTable(c.Gates[i], s)

\* the gate sweep at the top of the loop has just returned success
AfterSweep == pc = "frontier"

\* a decision was pushed and the worklist Implication run for it has just
\* returned success
AfterDecision == pc = "implication" /\ Len(decisionTree) > 0

TopDecision == decisionTree[Len(decisionTree)]

\* C11: whenever an implication step returns success (the gate sweep or
\* the worklist Implication run after a decision), every gate output
\* equals the five-valued evaluation of the gate's current input values.
ImplicationLeavesGatesEvaluated ==
    (AfterSweep \/ AfterDecision) => GatesEvaluated(Circuit(cid), sig)

\* C12: implication is idempotent: run again on the state a successful
\* implication step left, it succeeds and changes no signal value.
ImplicationIsIdempotent ==
    /\ AfterSweep =>
          performImplication(Circuit(cid), sig) = [ok |-> TRUE, sig |-> sig]
    /\ AfterDecision =>
          Implication(Circuit(cid), sig, TopDecision.Signal) = [Success |-> TRUE, sig |-> sig]

\* the outcome of the backtrace step of the current state when the
\* mandatory signals are enumerated in the order given
BacktraceOutcome(mandatory) ==
    LET c == Circuit(cid)
        r == MultipleBacktrace(createObjectives(c, result.DFrontier), c, mandatory)
    IN IF Len(r.FinalObjectives) = 0
       THEN [ok |-> FALSE, sig |-> sig]
       ELSE handleBacktraceResult(c, sig, r.FinalObjectives, 1, result.DecisionLevel)

\* the enumeration orders open to the backtrace step of the current state
CurrentMandatoryOrders ==
    MandatoryOrders(Circuit(cid), createObjectives(Circuit(cid), result.DFrontier))

InitEval ==
    /\ cid = "simple"
    /\ sig \in [SignalSet(Circuit("simple")) ->
                  {[NewSignal EXCEPT !.Value = v] : v \in SignalValue}]
    /\ faultSite = "in1"
    /\ faultValue = ZERO
    /\ decisionTree = <<>>
    /\ result = NewTestResult
    /\ pc = "evaluate"

\* Gate.Evaluate of the circuit package on one gate
Gate_Evaluate ==
    /\ pc = "evaluate"
    /\ \E i \in GateIdx(Circuit(cid)) :
          /\ sig' = Evaluate(Circuit(cid).Gates[i], sig).sig
          /\ result' = [result EXCEPT !.DFrontier = << i >>]
    /\ pc' = "gate_evaluated"
    /\ UNCHANGED <<cid, faultSite, faultValue, decisionTree>>

\* the body of the gate loop of performImplication on one gate:
\* evaluateGate and the assignment of the output
Driver_EvaluateGate ==
    /\ pc = "evaluate"
    /\ \E i \in GateIdx(Circuit(cid)) :
          LET gate == Circuit(cid).Gates[i]
              newValue == evaluateGate(gate, sig)
          IN /\ sig' = IF sig[gate.Output].Value # newValue
                          /\ IsCompatible(sig[gate.Output], newValue)
                       THEN [sig EXCEPT ![gate.Output].Value = newValue]
                       ELSE sig
             /\ result' = [result EXCEPT !.DFrontier = << i >>]
    /\ pc' = "driver_evaluated"
    /\ UNCHANGED <<cid, faultSite, faultValue, decisionTree>>

NextEval == Gate_Evaluate \/ Driver_EvaluateGate

SpecEval == InitEval /\ [][NextEval]_vars

\* the gate a single evaluation was applied to
EvaluatedGate == Circuit(cid).Gates[result.DFrontier[1]]

Evaluated == pc \in {"gate_evaluated", "driver_evaluated"}

\* C14: for every combination of input values, the AND output computed
\* by either evaluator is 0 if any input is 0; otherwise X if any input
\* is X; otherwise 0 if both D and D_BAR occur; otherwise D if any input
\* is D; otherwise D_BAR if any input is D_BAR; otherwise 1.
AndEvaluationFollowsTable ==
    (Evaluated /\ EvaluatedGate.Type = AND) =>
        GetValue(sig[EvaluatedGate.Output]) = AndTable(Range(GetInputValues(EvaluatedGate, sig)))

\* C15: for every combination of input values, the OR output computed by
\* either evaluator is 1 if any input is 1; otherwise X if any input is
\* X; otherwise 1 if both D and D_BAR occur; otherwise D if any input is
\* D; otherwise D_BAR if any input is D_BAR; otherwise 0.
OrEvaluationFollowsTable ==
    (Evaluated /\ EvaluatedGate.Type = OR) =>
        GetValue(sig[EvaluatedGate.Output]) = OrTable(Range(GetInputValues(EvaluatedGate, sig)))

\* the pairs (current value, new value) that are compatible
CompatiblePairs ==
    { <<ZERO, ZERO>>, <<ZERO, D_BAR>>, <<ONE, ONE>>, <<ONE, D>>,
      <<D, ONE>>, <<D, D>>, <<D_BAR, ZERO>>, <<D_BAR, D_BAR>> }

CompatTable(v, w) == v = X \/ w = X \/ <<v, w>> \in CompatiblePairs

\* C16: for a signal whose current value (last written by SetValue and
\* returned by GetValue) is v, IsCompatible(w) returns true iff v = X, or
\* w = X, or (v, w) is one of the compatible pairs.
IsCompatibleFollowsTable ==
    pc = "gate_evaluated" =>
        \A w \in SignalValue :
            IsCompatible(sig[EvaluatedGate.Output], w)
              <=> CompatTable(GetValue(sig[EvaluatedGate.Output]), w)

\* the gates whose output is X and that have an input holding D or D_BAR
GatesWithBlockedFault(c, s) ==
    {i \in GateIdx(c) :
        /\ GetValue(s[c.Gates[i].Output]) = X
        /\ \E k \in 1..Len(c.Gates[i].Inputs) :
              GetValue(s[c.Gates[i].Inputs[k]]) \in {D, D_BAR}}

\* the search has computed the D-frontier of the current signal values
FrontierComputed == pc = "backtrace" \/ (pc = "returned" /\ result.Success)

\* C17: the D-frontier the search computes is exactly the set of gates
\* whose output is X and that have at least one input holding D or D_BAR.
DFrontierIsBlockedFaultGates ==
    FrontierComputed =>
        Range(result.DFrontier) = GatesWithBlockedFault(Circuit(cid), sig)


(***************************************************************************)
(* The driving-gate links after construction.                              *)
(***************************************************************************)
\* the circuits put together with NewSignal, NewGate, AddGate and the
\* primary-input, primary-output and fanout calls only
BuiltWithAddGate == {"simple", "and3"}

\* the gates whose output is the signal s
DriversOf(c, s) == {i \in GateIdx(c) : c.Gates[i].Output = s}

\* C18: after a circuit is built with NewSignal, NewGate and AddGate, the
\* output signal of every gate has that gate as its driving gate, so every
\* signal that is not a primary input has exactly one driver and every
\* primary input has none
BuiltCircuitHasDrivers ==
    cid \in BuiltWithAddGate =>
        LET c == Circuit(cid)
        IN /\ \A i \in GateIdx(c) : c.FanIn[c.Gates[i].Output] = i
           /\ \A s \in SignalSet(c) \ Range(c.PrimaryInputs) :
                  c.FanIn[s] # NilGate /\ DriversOf(c, s) = {c.FanIn[s]}
           /\ \A s \in Range(c.PrimaryInputs) : c.FanIn[s] = NilGate


(***************************************************************************)
(* Bound and head lines after IdentifyBoundAndHeadLines.                   *)
(***************************************************************************)
\* Signal.IsBound once the circuit is built: NewSignal clears it, and
\* IdentifyBoundAndHeadLines keeps its bound lines in a local map and
\* never calls MarkAsBound
IsBound(c, s) == FALSE

\* the signals with two or more fanout destinations
Stems(c) == {s \in SignalSet(c) : Len(c.Fanouts[s]) > 1}

RECURSIVE FanoutClosure(_, _)
FanoutClosure(c, S) ==
    LET next == S \cup UNION {Range(c.Fanouts[s]) : s \in S}
    IN IF next = S THEN S ELSE FanoutClosure(c, next)

\* the signals reached from a stem by one or more fanout steps
ReachableFromStem(c) ==
    FanoutClosure(c, UNION {Range(c.Fanouts[s]) : s \in Stems(c)})

\* C19: after IdentifyBoundAndHeadLines the is-bound flag of a signal is
\* set exactly when the signal is reachable, by any number of fanout
\* steps, from a signal with two or more fanout destinations (read either
\* as the Signal.IsBound flag or as the bound-line set the function
\* computes)
BoundIffReachableFromStem ==
    LET c == Circuit(cid)
    IN \/ \A s \in SignalSet(c) : IsBound(c, s) <=> s \in ReachableFromStem(c)
       \/ BoundLines(c) = ReachableFromStem(c)

\* C20: after IdentifyBoundAndHeadLines a signal is flagged as a head line
\* and listed in the head-line list exactly when it is free (not reachable
\* from any stem) and at least one of its fanout destinations is bound
HeadIffFreeBeforeBound ==
    LET c == Circuit(cid)
        reach == ReachableFromStem(c)
    IN \A s \in SignalSet(c) :
           IsHead(c, s) <=> (s \notin reach /\ \E t \in Range(c.Fanouts[s]) : t \in reach)


(***************************************************************************)
(* MultipleBacktrace on its own.  The function accepts any list of         *)
(* objectives on the signals of a circuit, not only the objectives the     *)
(* search creates from a D-frontier, so it is also applied to every list   *)
(* of at most MaxObjectives objectives with the counters and the priority  *)
(* the tests and createObjectives give them.  The initial objectives and   *)
(* the returned BacktraceResult are kept in the result variable.           *)
(***************************************************************************)
MaxObjectives == 2

\* an initial objective as the callers build it
InitialObjective(s, v) ==
    IF v = ONE THEN NewObjective(s, ONE, 0, 1, 10) ELSE NewObjective(s, ZERO, 1, 0, 10)

ObjectiveLists(c) ==
    UNION {[1..n -> {InitialObjective(s, v) : s \in SignalSet(c), v \in {ZERO, ONE}}] :
             n \in 0..MaxObjectives}

InitMB ==
    /\ cid \in CircuitIds
    /\ sig = [s \in SignalSet(Circuit(cid)) |-> NewSignal]
    /\ faultSite \in {Circuit(cid).Signals[1]}
    /\ faultValue = ZERO
    /\ decisionTree = <<>>
    /\ result \in {[Objectives |-> objs] : objs \in ObjectiveLists(Circuit(cid))}
    /\ pc = "backtrace_call"

\* one call of MultipleBacktrace with the default configuration
MB_MultipleBacktrace ==
    /\ pc = "backtrace_call"
    /\ \E mandatory \in MandatoryOrders(Circuit(cid), result.Objectives) :
          LET r == MultipleBacktrace(result.Objectives, Circuit(cid), mandatory)
          IN result' = [Objectives |-> result.Objectives,
                        FinalObjectives |-> r.FinalObjectives,
                        HeadLines |-> r.HeadLines,
                        Stats |-> r.Stats]
    /\ pc' = "backtrace_returned"
    /\ UNCHANGED <<cid, sig, faultSite, faultValue, decisionTree>>

NextMB == MB_MultipleBacktrace

SpecMB == InitMB /\ [][NextMB]_vars

BacktraceReturned == pc = "backtrace_returned"

\* C21: every final objective returned by MultipleBacktrace is attached to
\* a signal that is a head line or a primary input, whatever the initial
\* objectives
FinalObjectivesOnHeadLinesOrInputs ==
    BacktraceReturned =>
        \A k \in 1..Len(result.FinalObjectives) :
            LET s == result.FinalObjectives[k].Signal
            IN IsHead(Circuit(cid), s) \/ s \in Range(Circuit(cid).PrimaryInputs)


\* the objectives the loop of MultipleBacktrace creates when it handles
\* obj: those of the inputs of the gate that drives the signal of obj
DescentFrom(c, obj) ==
    IF c.FanIn[obj.Signal] # NilGate
    THEN backtraceGateWithCost(c, c.Gates[c.FanIn[obj.Signal]], obj)
    ELSE <<>>

\* the initial objectives the loop handles: the first one of each signal
HandledInitialObjectives ==
    {result.Objectives[k] : k \in {i \in 1..Len(result.Objectives) :
        \A j \in 1..(i - 1) : result.Objectives[j].Signal # result.Objectives[i].Signal}}

\* C22: when MultipleBacktrace handles an objective whose signal is a head
\* line, it emits the objective as a final objective, lists the signal
\* among the head lines of the result, and creates no objectives for the
\* inputs of the gate that drives the head line
HeadLineObjectiveEndsDescent ==
    BacktraceReturned =>
        \A obj \in HandledInitialObjectives :
            IsHead(Circuit(cid), obj.Signal) =>
                /\ obj \in Range(result.FinalObjectives)
                /\ obj.Signal \in Range(result.HeadLines)
                /\ DescentFrom(Circuit(cid), obj) = <<>>


\* C23: given at least one initial objective, MultipleBacktrace returns at
\* least one final objective, every final objective is attached to a
\* signal of the circuit (none has a nil signal), and with unique
\* sensitization enabled, as in the default configuration, the statistics
\* of the result count at least one decision
BacktraceReturnsObjectives ==
    (BacktraceReturned /\ Len(result.Objectives) >= 1) =>
        /\ Len(result.FinalObjectives) >= 1
        /\ \A k \in 1..Len(result.FinalObjectives) :
               result.FinalObjectives[k].Signal \in SignalSet(Circuit(cid))
        /\ result.Stats.Decisions >= 1

\* the call of TestMultipleBacktrace has returned: the FAN test circuit
\* and the objective n1 = 1
BacktraceReturnedForStem ==
    /\ BacktraceReturned
    /\ cid = "fantest"
    /\ result.Objectives = << InitialObjective("n1", ONE) >>


(***************************************************************************)
(* The fault marker of a signal.  SetFault and SetValue are called, in any *)
(* order and on any signal, on the signals of the two-gate circuit; the    *)
(* last SetValue call is kept in the result variable.                      *)
(***************************************************************************)
\* a variant of SetFault that writes the fault value but sets no marker
SetFaultValueOnly(s, value) ==
    [s EXCEPT !.Value = IF value = ZERO THEN D ELSE D_BAR]

\* Signal.SetFault
SetFault(s, value) ==
    [s EXCEPT !.IsFault = TRUE,
              !.FaultType = value,
              !.Value = IF value = ZERO THEN D ELSE D_BAR]

InitSig ==
    /\ cid = "andnot"
    /\ sig = [s \in SignalSet(Circuit("andnot")) |-> NewSignal]
    /\ faultSite = Circuit("andnot").Signals[1]
    /\ faultValue = ZERO
    /\ decisionTree = <<>>
    /\ result = [LastSet |-> <<>>]
    /\ pc = "built"

\* SetFault(v) on one signal, once
Signal_SetFault ==
    /\ pc = "built"
    /\ \E s \in SignalSet(Circuit(cid)), v \in {ZERO, ONE} :
          /\ sig' = [sig EXCEPT ![s] = SetFault(sig[s], v)]
          /\ faultSite' = s
          /\ faultValue' = v
    /\ pc' = "faulted"
    /\ UNCHANGED <<cid, decisionTree, result>>

\* SetValue(v) on one signal
Signal_SetValue ==
    /\ \E s \in SignalSet(Circuit(cid)), v \in SignalValue :
          /\ sig' = [sig EXCEPT ![s] = SetValue(sig[s], v)]
          /\ result' = [LastSet |-> <<s, v>>]
    /\ UNCHANGED <<cid, faultSite, faultValue, decisionTree, pc>>

NextSig == Signal_SetFault \/ Signal_SetValue

SpecSig == InitSig /\ [][NextSig]_vars

\* C24: after SetFault(v) on a signal, every later sequence of SetValue
\* calls leaves GetValue returning D when v is stuck-at-0 and D-bar when v
\* is stuck-at-1
FaultMarkerFixesValue ==
    pc = "faulted" =>
        GetValue(sig[faultSite]) = (IF faultValue = ZERO THEN D ELSE D_BAR)

\* after SetFault the fault site was the target of a SetValue call with a
\* value other than its fault symbol
SetValueOnFaultedSignal ==
    /\ pc = "faulted"
    /\ \E v \in SignalValue :
          /\ result.LastSet = <<faultSite, v>>
          /\ v # (IF faultValue = ZERO THEN D ELSE D_BAR)


(***************************************************************************)
(* Building a circuit call by call.  The signal objects at hand are a, b   *)
(* and a second object with the identifier a; gates are made with NewGate  *)
(* from them.  The circuit under construction and the answer of the last   *)
(* GetSignalByID call are kept in the result variable.                     *)
(***************************************************************************)
MaxCalls == 2

SignalObjects == {"a", "a#2", "b"}

\* the gates handed to AddGate: a NOT gate or a two-input AND gate
GatesToAdd ==
    {NewGate("g", NOT, << i >>, o) : i \in SignalObjects, o \in SignalObjects}
      \cup {NewGate("g", AND, << i, j >>, o) :
              i \in SignalObjects, j \in SignalObjects, o \in SignalObjects}

\* Circuit.GetSignalByID: the first listed signal with the identifier, or
\* an error
RECURSIVE GetSignalByIDFrom(_, _, _)
GetSignalByIDFrom(c, id, k) ==
    IF k > Len(c.Signals) THEN [Signal |-> "nil", Err |-> TRUE]
    ELSE IF SignalID(c.Signals[k]) = id THEN [Signal |-> c.Signals[k], Err |-> FALSE]
    ELSE GetSignalByIDFrom(c, id, k + 1)

GetSignalByID(c, id) == GetSignalByIDFrom(c, id, 1)

InitBuild ==
    /\ cid = "under_construction"
    /\ sig = [s \in SignalObjects |-> NewSignal]
    /\ faultSite = "a"
    /\ faultValue = ZERO
    /\ decisionTree = <<>>
    /\ result = [Circuit |-> NewCircuit(SignalObjects), Calls |-> 0,
                 ID |-> "", Found |-> [Signal |-> "nil", Err |-> TRUE]]
    /\ pc = "building"

Build_AddGate ==
    /\ result.Calls < MaxCalls
    /\ \E gate \in GatesToAdd :
          result' = [result EXCEPT !.Circuit = AddGate(@, gate), !.Calls = @ + 1]
    /\ pc' = "building"
    /\ UNCHANGED <<cid, sig, faultSite, faultValue, decisionTree>>

Build_AddPrimaryInput ==
    /\ result.Calls < MaxCalls
    /\ \E s \in SignalObjects :
          result' = [result EXCEPT !.Circuit = AddPrimaryInput(@, s), !.Calls = @ + 1]
    /\ pc' = "building"
    /\ UNCHANGED <<cid, sig, faultSite, faultValue, decisionTree>>

Build_AddPrimaryOutput ==
    /\ result.Calls < MaxCalls
    /\ \E s \in SignalObjects :
          result' = [result EXCEPT !.Circuit = AddPrimaryOutput(@, s), !.Calls = @ + 1]
    /\ pc' = "building"
    /\ UNCHANGED <<cid, sig, faultSite, faultValue, decisionTree>>

Build_GetSignalByID ==
    /\ \E id \in {"a", "b"} :
          result' = [result EXCEPT !.ID = id, !.Found = GetSignalByID(result.Circuit, id)]
    /\ pc' = "looked_up"
    /\ UNCHANGED <<cid, sig, faultSite, faultValue, decisionTree>>

NextBuild ==
    \/ Build_AddGate
    \/ Build_AddPrimaryInput
    \/ Build_AddPrimaryOutput
    \/ Build_GetSignalByID

SpecBuild == InitBuild /\ [][NextBuild]_vars

\* the listed signals with the identifier id
Registered(c, id) == {k \in 1..Len(c.Signals) : SignalID(c.Signals[k]) = id}

\* C25: after any sequence of AddGate, AddPrimaryInput and
\* AddPrimaryOutput calls the signal list holds no two entries with the
\* same identifier, and GetSignalByID(id) returns the entry registered
\* under id, or an error when there is none
SignalsUniqueByIdentifier ==
    LET c == result.Circuit
    IN /\ \A id \in {"a", "b"} : Cardinality(Registered(c, id)) <= 1
       /\ pc = "looked_up" =>
             IF Registered(c, result.ID) = {}
             THEN result.Found.Err
             ELSE /\ ~result.Found.Err
                  /\ \A k \in Registered(c, result.ID) : result.Found.Signal = c.Signals[k]

\* a signal was offered to the circuit while another object with the same
\* identifier was listed, and the identifier was then looked up
SecondObjectOfferedAndLookedUp ==
    /\ pc = "looked_up"
    /\ result.ID = "a"
    /\ result.Calls = 2
    /\ ~result.Found.Err
    /\ \E g \in 1..Len(result.Circuit.Gates) :
          LET used == Range(result.Circuit.Gates[g].Inputs) \cup {result.Circuit.Gates[g].Output}
          IN \E s \in used : s # result.Found.Signal /\ SignalID(s) = "a"


(***************************************************************************)
(* Circuit.ValidateCircuit: the structural errors of a circuit.            *)
(***************************************************************************)
\* the error of one gate, "nil" when it has none
GateError(gate) ==
    IF gate.Output = "nil" THEN "gate has no output"
    ELSE IF Len(gate.Inputs) = 0 THEN "gate has no inputs"
    ELSE IF gate.Type = NOT /\ Len(gate.Inputs) # 1
         THEN "NOT gate must have exactly one input"
    ELSE "nil"

\* the signal loop comes first, then the gates in list order
ValidateCircuit(c) ==
    IF \E s \in SignalSet(c) :
          s \notin c.IsPrimary /\ c.FanIn[s] = NilGate /\ Len(c.Fanouts[s]) = 0
    THEN "unconnected signal found"
    ELSE LET bad == {i \in GateIdx(c) : GateError(c.Gates[i]) # "nil"}
         IN IF bad = {} THEN "nil"
            ELSE GateError(c.Gates[CHOOSE i \in bad : \A j \in bad : i <= j])

\* C26: when FAN is invoked on a circuit with a structural error (an
\* unconnected signal, a NOT gate whose number of inputs is not one, a gate
\* without output), the error is reported before FAN changes any signal
\* value or creates any decision, and no search is performed: the
\* invocation is either not started or has returned with the error, no
\* success and no decision
StructuralErrorStopsFAN ==
    ValidateCircuit(Circuit(cid)) # "nil" =>
        \/ pc = "call"
        \/ /\ pc = "returned"
           /\ result.Error # "nil"
           /\ ~result.Success
           /\ result.Decisions = 0
           /\ decisionTree = <<>>


(***************************************************************************)
(* The worked examples.                                                    *)
(***************************************************************************)
\* the primary inputs other than the fault site hold the value the builder
\* left on them (FAN writes no primary input on these circuits)
InputsAsBuilt ==
    \A s \in Range(Circuit(cid).PrimaryInputs) \ {faultSite} : sig[s].Value = ZERO

\* C27: FAN on the simple three-gate circuit, out = NOT(in3 OR (in1 AND
\* in2)), with a stuck-at-0 fault at in1 returns Success = true with the
\* test pattern in1 = 1, in2 = 1, in3 = 0
SimpleCircuitPattern ==
    (cid = "simple" /\ faultSite = "in1" /\ faultValue = ZERO /\ InputsAsBuilt /\ Returned) =>
        /\ result.Success
        /\ result.TestPattern = [s \in {"in1", "in2", "in3"} |->
                                    IF s = "in3" THEN ZERO ELSE ONE]


\* C28: FAN on the FAN test circuit with a stuck-at-1 fault on the fanout
\* stem n1 returns Success = true, the D-frontier is not empty after the
\* initial implication and in the returned result, and at least one
\* decision is made before success
FanTestCircuitSearch ==
    (cid = "fantest" /\ faultSite = "n1" /\ faultValue = ONE /\ InputsAsBuilt) =>
        /\ (pc = "frontier" /\ result.Decisions = 0) =>
               Len(findDFrontier(Circuit(cid), sig)) > 0
        /\ Returned =>
               /\ result.Success
               /\ Len(result.DFrontier) > 0
               /\ result.Decisions > 0


\* C29: whenever forward evaluation or backward implication derives for a
\* signal a value that is incompatible with the value the signal already
\* holds, the implication step returns failure and the driver backtracks;
\* an incompatible value is never written over a known value.  For one
\* gate evaluation of either evaluator: the value the output holds
\* afterwards is compatible with the value it held before.
IncompatibleValueNeverWritten ==
    [][pc = "evaluate" =>
        LET out == Circuit(cid).Gates[result'.DFrontier[1]].Output
        IN CompatTable(GetValue(sig[out]), GetValue(sig'[out]))]_vars


\* C30: after every implication step that returns success, each signal
\* that is the target of a decision still on the decision stack holds a
\* value compatible with the value of that decision; implication never
\* replaces a decided value by X or by its complement
DecidedValuesSurviveImplication ==
    (AfterSweep \/ AfterDecision) =>
        \A k \in 1..Len(decisionTree) :
            LET v == GetValue(sig[decisionTree[k].Signal])
            IN v # X /\ CompatTable(decisionTree[k].Value, v)


(***************************************************************************)
(* Backward implication at a decision.  A decision step sets the decided   *)
(* signal and runs Implication from it, so the decided signal is the first *)
(* one Implication processes, and it holds the decided value when its      *)
(* driving gate is looked at.                                              *)
(***************************************************************************)
\* the step is a decision on a signal with a driving gate
DecisionStep ==
    /\ pc = "backtrace"
    /\ pc' = "implication"
    /\ Len(decisionTree') = Len(decisionTree) + 1
    /\ Circuit(cid).FanIn[decisionTree'[Len(decisionTree')].Signal] # NilGate

\* the gate that drives the signal decided by the step
DecidedGate ==
    Circuit(cid).Gates[Circuit(cid).FanIn[decisionTree'[Len(decisionTree')].Signal]]

DecidedValue == decisionTree'[Len(decisionTree')].Value

\* C31: after Implication succeeds having processed the output of an AND
\* gate that holds 1, every input of that gate that was unknown holds 1,
\* and after processing the output of an OR gate that holds 0 every input
\* that was unknown holds 0: the forced value is written to the input
\* signal itself
BackwardImplicationForcesInputs ==
    [][DecisionStep =>
        \A k \in 1..Len(DecidedGate.Inputs) :
            LET in == DecidedGate.Inputs[k]
            IN /\ (DecidedGate.Type = AND /\ DecidedValue = ONE /\ GetValue(sig[in]) = X)
                     => GetValue(sig'[in]) = ONE
               /\ (DecidedGate.Type = OR /\ DecidedValue = ZERO /\ GetValue(sig[in]) = X)
                     => GetValue(sig'[in]) = ZERO]_vars


(***************************************************************************)
(* Implication on its own.  The function accepts any assignment on any     *)
(* signal values, so it is also run from every assignment of the five      *)
(* values to the signals of the simple circuit with its gates linked, and  *)
(* from every signal; the signal of the assignment is kept in faultSite.   *)
(***************************************************************************)
InitImpl ==
    /\ cid = "simple_connected"
    /\ sig \in [SignalSet(Circuit("simple_connected")) ->
                  {[NewSignal EXCEPT !.Value = v] : v \in SignalValue}]
    /\ faultSite \in SignalSet(Circuit("simple_connected"))
    /\ faultValue = ZERO
    /\ decisionTree = <<>>
    /\ result = NewTestResult
    /\ pc = "implication_call"

\* one call of Implication for an assignment on the signal faultSite
Impl_Implication ==
    /\ pc = "implication_call"
    /\ LET r == Implication(Circuit(cid), sig, faultSite)
       IN /\ sig' = r.sig
          /\ result' = [result EXCEPT !.Success = r.Success]
    /\ pc' = "implication_returned"
    /\ UNCHANGED <<cid, faultSite, faultValue, decisionTree>>

NextImpl == Impl_Implication

SpecImpl == InitImpl /\ [][NextImpl]_vars

\* the gate that drives the signal of the assignment
AssignedGate == Circuit(cid).Gates[Circuit(cid).FanIn[faultSite]]

\* the inputs of the gate g that hold X
UnknownAt(g, s) == {k \in 1..Len(g.Inputs) : GetValue(s[g.Inputs[k]]) = X}

\* the output of g holds out, one input is X and all others hold rest
LastInputOpen(g, s, out, rest) ==
    /\ GetValue(s[g.Output]) = out
    /\ Cardinality(UnknownAt(g, s)) = 1
    /\ \A k \in 1..Len(g.Inputs) : GetValue(s[g.Inputs[k]]) \in {X, rest}

\* C32: after Implication succeeds having processed the output of an AND
\* gate that holds 0 while all inputs but one hold 1 and the remaining
\* input is X, that remaining input holds 0; dually, for an OR gate
\* holding 1 with all inputs but one at 0, the remaining X input holds 1
BackwardImplicationForcesLastInput ==
    [][(pc = "implication_call" /\ result'.Success
          /\ Circuit(cid).FanIn[faultSite] # NilGate) =>
        /\ (AssignedGate.Type = AND /\ LastInputOpen(AssignedGate, sig, ZERO, ONE)) =>
              \A k \in UnknownAt(AssignedGate, sig) :
                  GetValue(sig'[AssignedGate.Inputs[k]]) = ZERO
        /\ (AssignedGate.Type = OR /\ LastInputOpen(AssignedGate, sig, ONE, ZERO)) =>
              \A k \in UnknownAt(AssignedGate, sig) :
                  GetValue(sig'[AssignedGate.Inputs[k]]) = ONE]_vars


(***************************************************************************)
(* Controllability scores.                                                 *)
(***************************************************************************)
\* Gate.CalculateControllability
CalculateControllability(g) ==
    CASE g.Type = AND -> Len(g.Inputs) * 2
      [] g.Type = OR -> Len(g.Inputs) * 2
      [] g.Type = NOT -> 1
      [] OTHER -> 0

\* Circuit.InitializeControllability: the score of every signal; a later
\* gate with the same output overwrites an earlier one, the primary
\* inputs are written last, and a signal nothing writes keeps 0
InitializeControllability(c) ==
    [s \in DOMAIN c.Fanouts |->
        IF s \in Range(c.PrimaryInputs) THEN 1
        ELSE LET drivers == {i \in GateIdx(c) : c.Gates[i].Output = s}
             IN IF drivers = {} THEN 0
                ELSE CalculateControllability(
                       c.Gates[CHOOSE i \in drivers : \A j \in drivers : j <= i])]

\* the Controllability field of the signals of a circuit: only
\* CreateFanTestCircuit calls InitializeControllability
Controllability(id) ==
    IF id \in {"fantest", "fantest_connected"}
    THEN InitializeControllability(Circuit(id))
    ELSE [s \in DOMAIN Circuit(id).Fanouts |-> 0]

\* the inputs of g with the smallest controllability score and, among
\* those, the fewest reachable fanouts
EasiestByScore(id, g) ==
    LET c == Circuit(id)
        score(s) == Controllability(id)[s]
        reach(s) == Cardinality(GetReachableFanouts(c, s))
        better(s, t) == score(s) < score(t) \/ (score(s) = score(t) /\ reach(s) < reach(t))
    IN {s \in Range(g.Inputs) : \A t \in Range(g.Inputs) : ~better(t, s)}

\* C33: when multiple backtrace descends through an AND gate, an objective
\* with desired value 1 produces one child objective with value 1 for
\* every input of the gate, and an objective with desired value 0
\* produces exactly one child objective with value 0, placed on the input
\* with the smallest controllability score, ties broken by the fewest
\* reachable fanouts; an OR gate behaves the same with 0 and 1 exchanged
DescentChildrenFollowRule ==
    BacktraceReturned =>
        \A obj \in HandledInitialObjectives :
            Circuit(cid).FanIn[obj.Signal] # NilGate =>
                LET g == Circuit(cid).Gates[Circuit(cid).FanIn[obj.Signal]]
                    children == DescentFrom(Circuit(cid), obj)
                    all == IF g.Type = AND THEN ONE ELSE ZERO
                IN g.Type \in {AND, OR} =>
                     IF obj.Value = all
                     THEN /\ Len(children) = Len(g.Inputs)
                          /\ \A k \in 1..Len(children) :
                                /\ children[k].Signal = g.Inputs[k]
                                /\ children[k].Value = obj.Value
                     ELSE /\ Len(children) = 1
                          /\ children[1].Value = obj.Value
                          /\ children[1].Signal \in EasiestByScore(cid, g)


(***************************************************************************)
(* The mandatory-signal queries.                                           *)
(***************************************************************************)
\* the depth-first search of Signal.GetPathsToOutputs; st is the record of
\* the paths found and the visited set, both shared by the whole search.
\* A signal is taken off the visited set before each of its fanouts is
\* followed; a signal without fanout stays on it.
RECURSIVE PathsDfs(_, _, _, _)
RECURSIVE PathsDfsFanouts(_, _, _, _, _)
PathsDfs(c, curr, path, st) ==
    IF curr \in st.visited THEN st
    ELSE LET newPath == Append(path, curr)
             seen == [st EXCEPT !.visited = @ \cup {curr}]
         IN IF curr \in c.IsPrimary /\ Len(c.Fanouts[curr]) = 0
            THEN [seen EXCEPT !.paths = Append(@, newPath)]
            ELSE PathsDfsFanouts(c, curr, newPath, 1, seen)

PathsDfsFanouts(c, curr, newPath, k, st) ==
    IF k > Len(c.Fanouts[curr]) THEN st
    ELSE PathsDfsFanouts(c, curr, newPath, k + 1,
           PathsDfs(c, c.Fanouts[curr][k], newPath,
                    [st EXCEPT !.visited = @ \ {curr}]))

\* Signal.GetPathsToOutputs
GetPathsToOutputs(c, s) == PathsDfs(c, s, <<>>, [paths |-> <<>>, visited |-> {}]).paths

\* Circuit.FindMandatoryPaths: the signals counted once on every path
FindMandatoryPaths(c, from) ==
    LET paths == GetPathsToOutputs(c, from)
    IN IF Len(paths) = 0 THEN {}
       ELSE {s \in SignalSet(c) : \A p \in 1..Len(paths) : s \in Range(paths[p])}

\* PathFinder.GetMandatorySignals: the gate outputs counted on every path
GetMandatorySignals(c, paths) ==
    IF Len(paths) = 0 THEN {}
    ELSE {s \in SignalSet(c) :
            \A p \in 1..Len(paths) : \E k \in 1..Len(paths[p]) : c.Gates[paths[p][k]].Output = s}

(***************************************************************************)
(* One query for one signal of one circuit; the signal is kept in          *)
(* faultSite and the answer in the result variable.                        *)
(***************************************************************************)
InitMand ==
    /\ cid \in CircuitIds
    /\ sig = [s \in SignalSet(Circuit(cid)) |-> NewSignal]
    /\ faultSite \in SignalSet(Circuit(cid))
    /\ faultValue = ZERO
    /\ decisionTree = <<>>
    /\ result = [Mandatory |-> {}]
    /\ pc = "query"

Circuit_FindMandatoryPaths ==
    /\ pc = "query"
    /\ result' = [Mandatory |-> FindMandatoryPaths(Circuit(cid), faultSite)]
    /\ pc' = "circuit_answered"
    /\ UNCHANGED <<cid, sig, faultSite, faultValue, decisionTree>>

\* the path finder is started at the gate that drives the signal
PathFinder_GetMandatorySignals ==
    /\ pc = "query"
    /\ Circuit(cid).FanIn[faultSite] # NilGate
    /\ result' = [Mandatory |->
                    GetMandatorySignals(Circuit(cid),
                      FindUniqueSensitizationPaths(Circuit(cid),
                                                   << Circuit(cid).FanIn[faultSite] >>))]
    /\ pc' = "pathfinder_answered"
    /\ UNCHANGED <<cid, sig, faultSite, faultValue, decisionTree>>

\* the query MultipleBacktrace makes for the signal of its first objective
Backtrace_findMandatoryPaths ==
    /\ pc = "query"
    /\ result' = [Mandatory |-> findMandatoryPaths(Circuit(cid), faultSite)]
    /\ pc' = "backtrace_answered"
    /\ UNCHANGED <<cid, sig, faultSite, faultValue, decisionTree>>

NextMand ==
    \/ Circuit_FindMandatoryPaths
    \/ PathFinder_GetMandatorySignals
    \/ Backtrace_findMandatoryPaths

SpecMand == InitMand /\ [][NextMand]_vars

\* the fanout paths from s to a primary output
RECURSIVE FanoutPathsToOutputs(_, _)
FanoutPathsToOutputs(c, s) ==
    IF s \in Range(c.PrimaryOutputs) THEN { << s >> }
    ELSE UNION {{ << s >> \o p : p \in FanoutPathsToOutputs(c, t)} : t \in Range(c.Fanouts[s])}

\* the signals that lie on every fanout path from s to a primary output
OnEveryPath(c, s) ==
    {t \in SignalSet(c) :
        /\ FanoutPathsToOutputs(c, s) # {}
        /\ \A p \in FanoutPathsToOutputs(c, s) : t \in Range(p)}

\* Circuit.FindMandatoryPaths or the path finder has answered
Answered == pc \in {"circuit_answered", "pathfinder_answered"}

\* the circuits in which every gate input is linked to the gate output and
\* every gate output to its gate
LinkedCircuits == {"simple_connected", "fantest_connected"}

\* C34: for every acyclic circuit the mandatory-signal query for a signal
\* s returns exactly the signals that lie on every fanout path from s to a
\* primary output, with or without paths that reconverge on the same
\* primary output (stated for the fully linked circuits and the signals
\* with a path to a primary output)
MandatoryIsOnEveryPath ==
    (Answered /\ cid \in LinkedCircuits
        /\ FanoutPathsToOutputs(Circuit(cid), faultSite) # {}) =>
        result.Mandatory = OnEveryPath(Circuit(cid), faultSite)


(***************************************************************************)
(* Unique sensitization and the size of the D-frontier.                    *)
(***************************************************************************)
\* the mandatory signals for which the backtrace step of the current state
\* adds a final objective
MandatoryOfBacktraceStep ==
    LET c == Circuit(cid)
        objectives == createObjectives(c, result.DFrontier)
    IN IF Len(objectives) = 0 THEN {}
       ELSE findMandatoryPaths(c, objectives[1].Signal)

\* C35: in a search iteration whose D-frontier holds more than one gate the
\* backtrace step adds no objective for a mandatory signal; such objectives
\* appear only when the D-frontier holds exactly one gate.
NoMandatoryObjectivesForSeveralGates ==
    (pc = "backtrace" /\ Len(result.DFrontier) > 1) =>
        MandatoryOfBacktraceStep = {}


(***************************************************************************)
(* Several objectives on one head line.                                    *)
(***************************************************************************)
\* the positions of the final objectives that are on the line h
ObjectivesOnLine(final, h) == {i \in 1..Len(final) : final[i].Signal = h}

RECURSIVE SumCounts(_, _)
SumCounts(counts, S) ==
    IF S = {} THEN 0
    ELSE LET i == CHOOSE i \in S : TRUE
         IN counts[i] + SumCounts(counts, S \ {i})

\* GetFinalValue applied to the counts accumulated on the line h
MajorityValue(final, h) ==
    LET n0 == SumCounts([i \in 1..Len(final) |-> final[i].ZeroCount],
                        ObjectivesOnLine(final, h))
        n1 == SumCounts([i \in 1..Len(final) |-> final[i].OneCount],
                        ObjectivesOnLine(final, h))
    IN IF n0 > n1 THEN ZERO ELSE IF n1 > n0 THEN ONE ELSE ZERO

\* the decision handleBacktraceResult takes from the objectives returned
HeadLineDecision ==
    handleBacktraceResult(Circuit(cid), sig, result.FinalObjectives, 1, 0)

\* the initial objectives of the call are on different signals
DistinctInitialObjectives ==
    \A i, j \in 1..Len(result.Objectives) :
        i # j => result.Objectives[i].Signal # result.Objectives[j].Signal

\* C36: when several objectives of one multiple backtrace are on the same
\* head line, the value decided for the line is the one with the larger
\* accumulated count, and 0 when the one-count and the zero-count are equal.
HeadLineValueIsMajority ==
    (/\ BacktraceReturned
     /\ DistinctInitialObjectives
     /\ Len(result.FinalObjectives) > 0
     /\ HeadLineDecision.ok
     /\ IsHead(Circuit(cid), HeadLineDecision.decision.Signal)
     /\ Cardinality(ObjectivesOnLine(result.FinalObjectives,
                                     HeadLineDecision.decision.Signal)) > 1)
    => HeadLineDecision.decision.Value =
           MajorityValue(result.FinalObjectives, HeadLineDecision.decision.Signal)


(***************************************************************************)
(* The decision tree of package strategy: AddDecision, Backtrack and       *)
(* ResetToCurrentState.  The nodes are kept in a sequence in the order of  *)
(* their creation; Parent and Current are positions, 0 standing for nil.   *)
(***************************************************************************)
MaxNodes == 3

NilNode == 0

\* the signals and values offered to AddDecision
DecisionSignals == {"in1", "mid1", "mid2"}
DecisionValues == {ZERO, ONE}

\* NewDecisionTree on the circuit of CreateSimpleCircuit
InitTree ==
    /\ cid = "simple"
    /\ sig = [s \in SignalSet(Circuit(cid)) |-> NewSignal]
    /\ faultSite = Circuit(cid).Signals[1]
    /\ faultValue = ZERO
    /\ decisionTree = <<>>
    /\ result = [Current |-> NilNode, Returned |-> FALSE]
    /\ pc = "tree_created"

\* DecisionTree.AddDecision: the node becomes the last child of the current
\* node and the new current node
AddDecision(nodes, current, signal, value) ==
    LET node == [Signal |-> signal, Value |-> value, Tried |-> FALSE,
                 Parent |-> current, Children |-> <<>>]
        n == Len(nodes) + 1
    IN IF Len(nodes) = 0
       THEN [nodes |-> << node >>, current |-> 1]
       ELSE [nodes |-> Append([nodes EXCEPT ![current].Children = Append(@, n)], node),
             current |-> n]

\* DecisionTree.Backtrack
RECURSIVE Backtrack(_, _)
Backtrack(nodes, current) ==
    IF current = NilNode THEN [nodes |-> nodes, current |-> current, ok |-> FALSE]
    ELSE IF ~nodes[current].Tried
    THEN [nodes |-> [nodes EXCEPT ![current].Tried = TRUE,
                                  ![current].Value = GetAlternativeValue(@)],
          current |-> current, ok |-> TRUE]
    ELSE IF nodes[current].Parent # NilNode
    THEN Backtrack(nodes, nodes[current].Parent)
    ELSE [nodes |-> nodes, current |-> current, ok |-> FALSE]

\* the replay loop of ResetToCurrentState: from the node down through the
\* first child of every node
RECURSIVE ReplayFirstChildren(_, _, _)
ReplayFirstChildren(nodes, node, s) ==
    LET t == [s EXCEPT ![nodes[node].Signal] = SetValue(@, nodes[node].Value)]
    IN IF Len(nodes[node].Children) > 0
       THEN ReplayFirstChildren(nodes, nodes[node].Children[1], t)
       ELSE t

\* DecisionTree.ResetToCurrentState; the root is the first node created
ResetToCurrentState(c, nodes, s) ==
    LET cleared == [x \in DOMAIN s |->
                      IF x \notin c.IsPrimary THEN SetValue(s[x], X) ELSE s[x]]
    IN IF Len(nodes) = 0 THEN cleared ELSE ReplayFirstChildren(nodes, 1, cleared)

Tree_AddDecision ==
    /\ Len(decisionTree) < MaxNodes
    /\ \E signal \in DecisionSignals, value \in DecisionValues :
          LET r == AddDecision(decisionTree, result.Current, signal, value)
          IN /\ decisionTree' = r.nodes
             /\ result' = [Current |-> r.current, Returned |-> TRUE]
    /\ pc' = "decision_added"
    /\ UNCHANGED <<cid, sig, faultSite, faultValue>>

Tree_Backtrack ==
    /\ LET r == Backtrack(decisionTree, result.Current)
       IN /\ decisionTree' = r.nodes
          /\ result' = [Current |-> r.current, Returned |-> r.ok]
    /\ pc' = "backtracked"
    /\ UNCHANGED <<cid, sig, faultSite, faultValue>>

Tree_ResetToCurrentState ==
    /\ sig' = ResetToCurrentState(Circuit(cid), decisionTree, sig)
    /\ pc' = "state_reset"
    /\ UNCHANGED <<cid, faultSite, faultValue, decisionTree, result>>

NextTree ==
    \/ Tree_AddDecision
    \/ Tree_Backtrack
    \/ Tree_ResetToCurrentState

SpecTree == InitTree /\ [][NextTree]_vars

\* the nodes from the root down to the node, in that order
RECURSIVE PathFromRoot(_, _)
PathFromRoot(nodes, node) ==
    IF node = NilNode THEN <<>>
    ELSE Append(PathFromRoot(nodes, nodes[node].Parent), node)

\* the value the decisions of the path leave on the signal: the value of
\* the last decision on it, X when the path holds none
RECURSIVE ValueOnPath(_, _, _, _)
ValueOnPath(nodes, path, k, s) ==
    IF k = 0 THEN X
    ELSE IF nodes[path[k]].Signal = s THEN nodes[path[k]].Value
    ELSE ValueOnPath(nodes, path, k - 1, s)

\* C37: after any sequence of AddDecision and Backtrack calls,
\* ResetToCurrentState leaves on every non-primary signal the value of the
\* decision on it on the path from the root to the current node, and X on
\* every non-primary signal that path does not decide: decisions below the
\* current node or on abandoned branches are not applied.
ResetAppliesPathToCurrent ==
    pc = "state_reset" =>
        LET path == PathFromRoot(decisionTree, result.Current)
        IN \A s \in SignalSet(Circuit(cid)) \ Circuit(cid).IsPrimary :
              GetValue(sig[s]) = ValueOnPath(decisionTree, path, Len(path), s)


InitRuns == Init

\* testFault: the next call of FAN on the same circuit, for another fault
testFault ==
    /\ pc = "returned"
    /\ \E signal \in SignalSet(Circuit(cid)), value \in {ZERO, ONE} :
          /\ faultSite' = signal
          /\ faultValue' = value
    /\ pc' = "call"
    /\ UNCHANGED <<cid, sig, decisionTree, result>>

NextRuns ==
    \/ FAN_Init
    \/ FAN_Implication
    \/ FAN_Completion
    \/ FAN_Backtrace
    \/ FAN_Backtrack
    \/ testFault

SpecRuns == InitRuns /\ [][NextRuns]_vars

\* C39: at the start of the search loop of every FAN invocation, also of
\* one that follows earlier runs on the same circuit for other faults, the
\* fault site is the only signal that holds D or D_BAR.
OnlyFaultSiteIsFaultyAtStart ==
    [][(pc = "call" /\ pc' = "implication") =>
          \A s \in SignalSet(Circuit(cid)) :
              sig'[s].Value \in {D, D_BAR} => s = faultSite]_vars


(***************************************************************************)
(* Circuit.Simulate.                                                       *)
(***************************************************************************)
\* one pass of the gate loop of Simulate: Gate.Evaluate on every gate in
\* the order of c.Gates
RECURSIVE SimulatePass(_, _, _, _)
SimulatePass(c, k, s, changed) ==
    IF k > Len(c.Gates) THEN [sig |-> s, changed |-> changed]
    ELSE LET e == Evaluate(c.Gates[k], s)
         IN SimulatePass(c, k + 1, e.sig, changed \/ e.changed)

\* the loop "for changed && iterations < maxIterations"
RECURSIVE SimulateLoop(_, _, _, _, _)
SimulateLoop(c, s, changed, iterations, maxIterations) ==
    IF changed /\ iterations < maxIterations
    THEN LET p == SimulatePass(c, 1, s, FALSE)
         IN SimulateLoop(c, p.sig, p.changed, iterations + 1, maxIterations)
    ELSE [sig |-> s, iterations |-> iterations]

\* Circuit.Simulate
Simulate(c, s) ==
    LET cleared == [x \in DOMAIN s |->
                      IF x \notin c.IsPrimary THEN SetValue(s[x], X) ELSE s[x]]
        maxIterations == Len(c.Gates) * 2
        r == SimulateLoop(c, cleared, TRUE, 0, maxIterations)
    IN [sig |-> r.sig,
        Error |-> IF r.iterations = maxIterations
                  THEN "simulation did not converge" ELSE "nil"]

\* the circuits offered to Simulate: the ones above and a circuit without
\* gates
SimulatedCircuitIds == CircuitIds \cup {"empty"}

\* a circuit as constructed, with the caller's values on the primary inputs
InitSim ==
    /\ cid \in SimulatedCircuitIds
    /\ sig \in {[s \in SignalSet(Circuit(cid)) |->
                    IF s \in DOMAIN v THEN [NewSignal EXCEPT !.Value = v[s]] ELSE NewSignal] :
                 v \in [Range(Circuit(cid).PrimaryInputs) -> InputValueChoices]}
    /\ faultSite = "none"
    /\ faultValue = ZERO
    /\ decisionTree = <<>>
    /\ result = [Error |-> "nil"]
    /\ pc = "simulate_call"

Circuit_Simulate ==
    /\ pc = "simulate_call"
    /\ LET r == Simulate(Circuit(cid), sig)
       IN /\ sig' = r.sig
          /\ result' = [Error |-> r.Error]
    /\ pc' = "simulated"
    /\ UNCHANGED <<cid, faultSite, faultValue, decisionTree>>

NextSim == Circuit_Simulate

SpecSim == InitSim /\ [][NextSim]_vars

\* one more pass over the gates would change no value
FixedPointReached ==
    ~SimulatePass(Circuit(cid), 1, sig, FALSE).changed

\* C40: Simulate returns an error only when the evaluation of the gates has
\* not reached a fixed point: whenever a full pass changes no value it
\* returns nil, also for a circuit without gates or with a single gate.
SimulateReturnsNilAtFixedPoint ==
    (pc = "simulated" /\ FixedPointReached) => result.Error = "nil"

=============================================================================
